---- MODULE Spec2Model ----
(***************************************************************************)
(* A model of the Streamlit dashboards of agrifood-cost-margin-senegal,    *)
(* app.py, Sen_agricost.py and "Agrifood Cost and Margin Estimation v2.py",*)
(* and of scripts/agrifood_pipeline.py.                                    *)
(*                                                                         *)
(* The module holds several specifications over one set of variables; each *)
(* one runs one part of the code and leaves the other parts idle:          *)
(*   Spec        main() of the three dashboards with the commodity loader  *)
(*               and load_geospatial_data                                  *)
(*   SpecGeo     main() over every state of the geospatial files           *)
(*   SpecSen     main() of Sen_agricost.py over several years and months   *)
(*   SpecChart   main() of v2 over months with several records             *)
(*   SpecRaster  generate_raster_images: the classification loops          *)
(*   SpecMarker  generate_map: the loop that draws the region markers      *)
(*   SpecV2      the v2 load_commodity_data: cleaning, deduplication and   *)
(*               the outer merge                                           *)
(*   SpecNames   the v2 loader over names written in several ways          *)
(*   SpecScript  agrifood_pipeline.py: extract_price_data and              *)
(*               generate_margin_data                                      *)
(***************************************************************************)
EXTENDS Integers, Sequences, FiniteSets, TLC

VARIABLES
    \* ---- generate_raster_images
    travel_data,        \* None, or the masked array at one pixel position
    friction_data,
    travel_rgb,         \* the RGB triple of the pixel in travel_rgb
    friction_rgb,
    rpc,                \* position in generate_raster_images
    i,                  \* the loop variable i of the running band loop
    travel_bounds,      \* None, or the bounds read with the raster
    friction_bounds,
    painted,            \* history: the bands that assigned the pixel, per raster
    png,                \* [travel, friction, bounds]: the values returned
    \* ---- generate_map: the region markers
    dash,               \* the dashboard that runs: "app", "sen" or "v2"
    region_rows,        \* filtered_df: the number of its rows per region id
    grouped,            \* None, or the grouped frame: a row per region
    markers,            \* the CircleMarkers added to the map, in order
    mpc,                \* position in generate_map
    g,                  \* the number of grouped rows iterrows() has yielded
    \* ---- main
    pc,                 \* position in main
    file,               \* the workbook on disk
    geo_files,          \* the raster and GeoJSON files on disk
    df,                 \* None, or the frame the loader returned
    retail_df,          \* the loader's local retail_df (v2)
    farmgate_df,        \* the loader's local farmgate_df (v2)
    errors,             \* the st.error messages of this run
    warnings,           \* the st.warning messages of load_geospatial_data
    geo,                \* None, or the six values load_geospatial_data returned
    paths,              \* None, or what generate_raster_images returned
    selected,           \* the widgets: year, month, commodities
    map_out,            \* None, or what generate_map returned
    shown,              \* None, or the table and the chart main has drawn
    steps,              \* history: the steps of main taken in this run
    \* ---- agrifood_pipeline.py
    text,               \* the text handed to extract_price_data
    sents,              \* None, or doc.sents: the sentences of the text
    sent,               \* the number of sentences the loop has taken
    prices,             \* the list prices of extract_price_data
    margin_df,          \* None, or the frame of generate_margin_data
    spc                 \* position in the script

rasterVars ==
    <<travel_data, friction_data, travel_rgb, friction_rgb, rpc, i,
      travel_bounds, friction_bounds, painted, png>>

markerVars == <<dash, region_rows, grouped, markers, mpc, g>>

mainVars ==
    <<pc, file, geo_files, df, retail_df, farmgate_df, errors, warnings, geo, paths,
      selected, map_out, shown, steps>>

scriptVars == <<text, sents, sent, prices, margin_df, spc>>

vars == <<rasterVars, markerVars, mainVars, scriptVars>>

\* What the steps of one part leave alone: the variables of the other parts
notRaster == <<markerVars, mainVars, scriptVars>>

notMarker == <<rasterVars, mainVars, scriptVars>>

notMain == <<rasterVars, region_rows, grouped, markers, mpc, g, scriptVars>>

notScript == <<rasterVars, markerVars, mainVars>>

(***************************************************************************)
(* Values.  Python's None and numpy's floats are tagged records, so that   *)
(* any two values can be compared.                                         *)
(***************************************************************************)
None == [k |-> "none"]

Num(n) == [k |-> "num", n |-> n]

Inf == [k |-> "inf", n |-> 0]

NaN == [k |-> "nan", n |-> 0]

IsNum(x) == x.k = "num"

\* IEEE comparison a < b of floats: false when either side is NaN
Lt(a, b) ==
    IF a.k = "nan" \/ b.k = "nan" THEN FALSE
    ELSE IF a.k = "inf" THEN FALSE
    ELSE IF b.k = "inf" THEN TRUE
    ELSE a.n < b.n

\* IEEE comparison a >= b of floats: false when either side is NaN
Ge(a, b) ==
    IF a.k = "nan" \/ b.k = "nan" THEN FALSE
    ELSE IF a.k = "inf" THEN TRUE
    ELSE IF b.k = "inf" THEN FALSE
    ELSE a.n >= b.n

(***************************************************************************)
(* Cells of a spreadsheet or DataFrame: NULL is an empty cell (NaN), Num a *)
(* number, Str an opaque text, Text a text held as its characters.         *)
(***************************************************************************)
NULL == [k |-> "null"]

Str(s) == [k |-> "str", s |-> s]

Text(chars) == [k |-> "text", s |-> chars]

\* the mean of a column: the sum p of q non-null numbers
Frac(p, q) == [k |-> "frac", p |-> p, q |-> q]

\* Series.isna() / notna() at one cell
IsNa(c) == c = NULL

\* pd.to_numeric(column, errors='coerce') at one cell: a number stays, an
\* empty cell and a text that is no number become NaN
ToNumeric(c) == IF c.k = "num" THEN c ELSE NULL

\* column.astype(str) at one cell of an object column whose cells are texts
\* or empty: a text stays, and str(NaN) is the text 'nan'
AsStr(c) == IF c = NULL THEN Str("nan") ELSE c

\* Series.fillna(value) at one cell
FillNa(c, value) == IF IsNa(c) THEN value ELSE c

\* df['Unit'].astype(str).fillna('Unknown') at one cell
NormalizeUnit(c) == FillNa(AsStr(c), Str("Unknown"))

(***************************************************************************)
(* Commodity names: str.strip(), str.replace(r'\s+', ' '), str.title()     *)
(***************************************************************************)
LowerCase == <<"a", "b", "c", "d", "e", "f", "g", "h", "i", "j", "k", "l", "m",
               "n", "o", "p", "q", "r", "s", "t", "u", "v", "w", "x", "y", "z">>

UpperCase == <<"A", "B", "C", "D", "E", "F", "G", "H", "I", "J", "K", "L", "M",
               "N", "O", "P", "Q", "R", "S", "T", "U", "V", "W", "X", "Y", "Z">>

\* the characters the regular expression class \s matches
WhiteSpace == {" ", "\t", "\n"}

IsLower(c) == \E x \in 1..Len(LowerCase) : LowerCase[x] = c

IsUpper(c) == \E x \in 1..Len(UpperCase) : UpperCase[x] = c

IsLetter(c) == IsLower(c) \/ IsUpper(c)

ToUpper(c) == IF IsLower(c) THEN UpperCase[CHOOSE x \in 1..Len(LowerCase) : LowerCase[x] = c] ELSE c

ToLower(c) == IF IsUpper(c) THEN LowerCase[CHOOSE x \in 1..Len(UpperCase) : UpperCase[x] = c] ELSE c

RECURSIVE LStrip(_)
LStrip(w) == IF w # <<>> /\ Head(w) \in WhiteSpace THEN LStrip(Tail(w)) ELSE w

RECURSIVE RStrip(_)
RStrip(w) ==
    IF w # <<>> /\ w[Len(w)] \in WhiteSpace THEN RStrip(SubSeq(w, 1, Len(w) - 1)) ELSE w

\* str.strip()
Strip(w) == RStrip(LStrip(w))

\* re.sub(r'\s+', ' ', w): every maximal run of white space becomes one space
RECURSIVE Collapse(_)
Collapse(w) ==
    IF w = <<>> THEN <<>>
    ELSE IF Head(w) \in WhiteSpace
         THEN <<" ">> \o Collapse(LStrip(Tail(w)))
         ELSE <<Head(w)>> \o Collapse(Tail(w))

\* str.title(): a letter that follows a letter is lowered, any other letter raised
Title(w) ==
    [x \in 1..Len(w) |->
        IF x > 1 /\ IsLetter(w[x - 1]) THEN ToLower(w[x]) ELSE ToUpper(w[x])]

\* .str.strip().str.title() alone: runs of white space are left as they are
NormalizeNameNoCollapse(c) ==
    IF c.k = "text" THEN Text(Title(Strip(c.s))) ELSE NULL

\* .str.strip().str.replace(r'\s+', ' ', regex=True).str.title() at one cell:
\* the .str methods give NaN for a cell that holds no text
NormalizeName(c) ==
    IF c.k = "text" THEN Text(Title(Collapse(Strip(c.s)))) ELSE NULL

(***************************************************************************)
(* DataFrames are sequences of rows; a row is a record of cells.           *)
(***************************************************************************)
\* df[cols] at one row
Project(row, cols) == [c \in cols |-> row[c]]

Column(rows, col) == [r \in 1..Len(rows) |-> rows[r][col]]

RECURSIVE Filter(_, _, _)
\* the rows whose position is in keep, in order
Filter(rows, keep, r) ==
    IF r > Len(rows) THEN <<>>
    ELSE (IF r \in keep THEN <<rows[r]>> ELSE <<>>) \o Filter(rows, keep, r + 1)

\* df[cols].drop_duplicates(): a row equal to an earlier one is dropped (two
\* NaN cells count as equal)
DropDuplicates(rows, cols) ==
    Filter(rows,
           {r \in 1..Len(rows) :
               \A q \in 1..(r - 1) : Project(rows[q], cols) # Project(rows[r], cols)},
           1)

\* The order groupby and merge sort their keys in: numbers by value, texts
\* by their characters' code points
CodePoints == <<"\t", "\n", " ", "-">> \o UpperCase \o LowerCase

Ord(c) == CHOOSE x \in 1..Len(CodePoints) : CodePoints[x] = c

RECURSIVE TextLe(_, _)
TextLe(v, w) ==
    IF v = <<>> THEN TRUE
    ELSE IF w = <<>> THEN FALSE
    ELSE IF Head(v) = Head(w) THEN TextLe(Tail(v), Tail(w))
    ELSE Ord(Head(v)) < Ord(Head(w))

CellLe(a, b) == IF a.k = "num" THEN a.n <= b.n ELSE TextLe(a.s, b.s)

RECURSIVE KeyLe(_, _, _)
\* lexicographic order of two key tuples over the key columns
KeyLe(x, y, keys) ==
    IF keys = <<>> THEN TRUE
    ELSE IF x[Head(keys)] = y[Head(keys)] THEN KeyLe(x, y, Tail(keys))
    ELSE CellLe(x[Head(keys)], y[Head(keys)])

RECURSIVE SortKeys(_, _)
SortKeys(S, keys) ==
    IF S = {} THEN <<>>
    ELSE LET least == CHOOSE x \in S : \A y \in S : KeyLe(x, y, keys)
         IN <<least>> \o SortKeys(S \ {least}, keys)

Range(f) == {f[x] : x \in DOMAIN f}

\* The keys groupby(keys) makes groups of: dropna=True leaves out every row
\* with NaN in a key column; sort=True orders the groups by key
GroupKeys(rows, keys) ==
    SortKeys({Project(rows[r], Range(keys)) :
                 r \in {q \in 1..Len(rows) : \A c \in Range(keys) : ~IsNa(rows[q][c])}},
             keys)

\* the rows of one group, in their order in the frame
GroupRows(rows, keys, key) ==
    Filter(rows, {r \in 1..Len(rows) : Project(rows[r], Range(keys)) = key}, 1)

RECURSIVE SumCells(_)
SumCells(cells) ==
    IF cells = <<>> THEN 0
    ELSE (IF Head(cells).k = "num" THEN Head(cells).n ELSE 0) + SumCells(Tail(cells))

\* agg 'mean': the mean of the cells that are not NaN, NaN when there is none
Mean(cells) ==
    LET q == Cardinality({x \in 1..Len(cells) : cells[x].k = "num"})
    IN IF q = 0 THEN NULL ELSE Frac(SumCells(cells), q)

\* agg 'first': the first cell that is not NaN, NaN when there is none
First(cells) ==
    IF \A x \in 1..Len(cells) : IsNa(cells[x]) THEN NULL
    ELSE cells[CHOOSE x \in 1..Len(cells) :
                   ~IsNa(cells[x]) /\ \A y \in 1..(x - 1) : IsNa(cells[y])]

RECURSIVE SumFracs(_)
\* the sum of the cells that are not NaN, numbers or means, as one fraction
SumFracs(cells) ==
    IF cells = <<>> THEN Frac(0, 1)
    ELSE LET rest == SumFracs(Tail(cells))
         IN CASE Head(cells).k = "frac" ->
                     Frac(Head(cells).p * rest.q + rest.p * Head(cells).q,
                          Head(cells).q * rest.q)
              [] Head(cells).k = "num" -> Frac(Head(cells).n * rest.q + rest.p, rest.q)
              [] OTHER -> rest

\* agg 'mean' over a column of an aggregated frame, whose cells are means
MeanOfMeans(cells) ==
    LET q == Cardinality({x \in 1..Len(cells) : ~IsNa(cells[x])})
    IN IF q = 0 THEN NULL ELSE Frac(SumFracs(cells).p, SumFracs(cells).q * q)

\* sort_values(keys): NaN after every value
NaLastLe(x, y, keys) ==
    \/ keys = <<>>
    \/ LET differ == {c \in 1..Len(keys) : x[keys[c]] # y[keys[c]]}
           c == keys[CHOOSE least \in differ : \A other \in differ : least <= other]
       IN \/ differ = {}
          \/ IsNa(y[c])
          \/ ~IsNa(x[c]) /\ CellLe(x[c], y[c])

RECURSIVE SortRows(_, _, _)
\* the rows at the positions left, sorted by keys, equal keys in frame order
SortRows(rows, left, keys) ==
    IF left = {} THEN <<>>
    ELSE LET least == CHOOSE x \in left :
                          \A y \in left :
                              /\ NaLastLe(rows[x], rows[y], keys)
                              /\ NaLastLe(rows[y], rows[x], keys) => x <= y
         IN <<rows[least]>> \o SortRows(rows, left \ {least}, keys)

(***************************************************************************)
(* The v2 load_commodity_data.  Of the 27 required columns the model keeps *)
(* the key, price and unit columns; the descriptive columns that the       *)
(* aggregation carries along with 'first' are left out.                    *)
(***************************************************************************)
\* df['year'] = pd.to_numeric(...) ... df['commodity_farmgate_en'] = ....str.title()
CleanV2(rows) ==
    [r \in 1..Len(rows) |->
        [rows[r] EXCEPT !.year = ToNumeric(@),
                        !.month = ToNumeric(@),
                        !.price_retail = ToNumeric(@),
                        !.price_farmgate = ToNumeric(@),
                        !.unit_retail = NormalizeUnit(@),
                        !.unit_farmgate = NormalizeUnit(@),
                        !.unit2_retail = NormalizeUnit(@),
                        !.unit2_farmgate = NormalizeUnit(@),
                        !.commodity_retail = NormalizeName(@),
                        !.commodity_farmgate_en = NormalizeName(@)]]

\* The .str accessor raises AttributeError on a column that holds no text:
\* read_excel gives a column without any text cell a numeric dtype
StrAccessorRaises(rows, col) ==
    rows # <<>> /\ \A r \in 1..Len(rows) : rows[r][col].k # "text"

retail_cols ==
    {"market_id", "year", "month", "commodity_retail", "price_retail", "unit_retail",
     "unit2_retail"}

retail_keys == <<"market_id", "year", "month", "commodity_retail">>

farmgate_cols ==
    {"region_id", "year", "month", "commodity_farmgate_en", "price_farmgate",
     "unit_farmgate", "unit2_farmgate"}

farmgate_keys == <<"region_id", "year", "month", "commodity_farmgate_en">>

NotNa(rows, col) == Filter(rows, {r \in 1..Len(rows) : ~IsNa(rows[r][col])}, 1)

\* df[df['commodity_retail'].notna()][retail_cols].drop_duplicates()
RetailRows(frame) ==
    LET kept == NotNa(frame, "commodity_retail")
    IN [r \in 1..Len(DropDuplicates(kept, retail_cols)) |->
           Project(DropDuplicates(kept, retail_cols)[r], retail_cols)]

\* ... .drop_duplicates() alone, a row per distinct record
RetailDfNoGroupBy(frame) ==
    [r \in 1..Len(RetailRows(frame)) |->
        [RetailRows(frame)[r] EXCEPT !.price_retail = Mean(<<@>>)]]

\* ... .groupby([market_id, year, month, commodity_retail]).agg({...}).reset_index()
RetailDf(frame) ==
    LET rows == RetailRows(frame)
        keys == GroupKeys(rows, retail_keys)
    IN [x \in 1..Len(keys) |->
           LET grp == GroupRows(rows, retail_keys, keys[x])
           IN [market_id |-> keys[x].market_id,
               year |-> keys[x].year,
               month |-> keys[x].month,
               commodity_retail |-> keys[x].commodity_retail,
               price_retail |-> Mean(Column(grp, "price_retail")),
               unit_retail |-> First(Column(grp, "unit_retail")),
               unit2_retail |-> First(Column(grp, "unit2_retail"))]]

FarmgateRows(frame) ==
    LET kept == NotNa(frame, "commodity_farmgate_en")
    IN [r \in 1..Len(DropDuplicates(kept, farmgate_cols)) |->
           Project(DropDuplicates(kept, farmgate_cols)[r], farmgate_cols)]

FarmgateDf(frame) ==
    LET rows == FarmgateRows(frame)
        keys == GroupKeys(rows, farmgate_keys)
    IN [x \in 1..Len(keys) |->
           LET grp == GroupRows(rows, farmgate_keys, keys[x])
           IN [region_id |-> keys[x].region_id,
               year |-> keys[x].year,
               month |-> keys[x].month,
               commodity_farmgate_en |-> keys[x].commodity_farmgate_en,
               price_farmgate |-> Mean(Column(grp, "price_farmgate")),
               unit_farmgate |-> First(Column(grp, "unit_farmgate")),
               unit2_farmgate |-> First(Column(grp, "unit2_farmgate"))]]

merge_on == <<"year", "month">>

\* a row of the merged frame: the retail columns of l, the farmgate columns
\* of f, NaN where a side is missing
MergedRow(ym, l, f) ==
    [year |-> ym.year,
     month |-> ym.month,
     market_id |-> IF l = NULL THEN NULL ELSE l.market_id,
     commodity_retail |-> IF l = NULL THEN NULL ELSE l.commodity_retail,
     price_retail |-> IF l = NULL THEN NULL ELSE l.price_retail,
     unit_retail |-> IF l = NULL THEN NULL ELSE l.unit_retail,
     unit2_retail |-> IF l = NULL THEN NULL ELSE l.unit2_retail,
     region_id |-> IF f = NULL THEN NULL ELSE f.region_id,
     commodity_farmgate_en |-> IF f = NULL THEN NULL ELSE f.commodity_farmgate_en,
     price_farmgate |-> IF f = NULL THEN NULL ELSE f.price_farmgate,
     unit_farmgate |-> IF f = NULL THEN NULL ELSE f.unit_farmgate,
     unit2_farmgate |-> IF f = NULL THEN NULL ELSE f.unit2_farmgate]

RECURSIVE Cross(_, _, _, _)
\* the rows of one (year, month): each left row with each right row
Cross(ym, left, right, l) ==
    IF l > Len(left) THEN <<>>
    ELSE [x \in 1..Len(right) |-> MergedRow(ym, left[l], right[x])]
         \o Cross(ym, left, right, l + 1)

\* the rows of one (year, month) in an inner merge: none without a match
MergeOneInner(ym, left, right) == Cross(ym, left, right, 1)

MergeOne(ym, left, right) ==
    IF left = <<>> THEN [x \in 1..Len(right) |-> MergedRow(ym, NULL, right[x])]
    ELSE IF right = <<>> THEN [x \in 1..Len(left) |-> MergedRow(ym, left[x], NULL)]
    ELSE Cross(ym, left, right, 1)

RECURSIVE MergeAll(_, _, _, _)
MergeAll(yms, left, right, x) ==
    IF x > Len(yms) THEN <<>>
    ELSE MergeOne(yms[x], GroupRows(left, merge_on, yms[x]),
                  GroupRows(right, merge_on, yms[x]))
         \o MergeAll(yms, left, right, x + 1)

\* retail_df.merge(farmgate_df, on=['year', 'month'], how='outer', ...)
OuterMerge(left, right) ==
    MergeAll(SortKeys(Range(GroupKeys(left, merge_on)) \cup Range(GroupKeys(right, merge_on)),
                      merge_on),
             left, right, 1)

merged_subset ==
    {"market_id", "year", "month", "commodity_retail", "region_id", "commodity_farmgate_en"}

\* the body of the v2 loader after the column check, when nothing raises
FrameV2(rows) ==
    LET frame == CleanV2(rows)
        merged == OuterMerge(RetailDf(frame), FarmgateDf(frame))
    IN [retail_df |-> RetailDf(frame),
        farmgate_df |-> FarmgateDf(frame),
        df |-> DropDuplicates(merged, merged_subset)]

(***************************************************************************)
(* The commodity loaders: load_data (app.py) and load_commodity_data       *)
(* (Sen_agricost.py, v2).  A file is MissingFile or a workbook with its    *)
(* column names, its rows and whether pd.read_excel can read it.           *)
(***************************************************************************)
MissingFile == [k |-> "missing"]

Workbook(columns, rows, corrupt) ==
    [k |-> "file", columns |-> columns, rows |-> rows, corrupt |-> corrupt]

required_columns_app ==
    <<"Year", "Month", "Commodity", "Regions Name", "Regions - RegionId",
      "Regions - Latitude", "Regions - Longitude", "Price", "Unit">>

required_columns_v2 ==
    <<"date", "admin1", "admin2", "market", "market_id", "latitude", "longitude",
      "category", "commodity_retail", "commodity_id", "unit_retail", "priceflag",
      "pricetype", "currency", "price_retail", "usdprice", "unit2_retail",
      "year", "month", "commodity_farmgate_en", "region_name", "region_id",
      "region_latitude", "region_longitude", "price_farmgate", "unit_farmgate",
      "unit2_farmgate">>

required_columns(d) == IF d = "v2" THEN required_columns_v2 ELSE required_columns_app

\* [col for col in required_columns if col not in df.columns]
MissingColumnsAll(required, columns) == required

MissingColumns(required, columns) == SelectSeq(required, LAMBDA col : col \notin columns)

\* the cleaning of app.py and Sen_agricost.py: to_numeric on Year, Month and
\* Price, astype(str).fillna('Unknown') on Unit
CleanApp(rows) ==
    [r \in 1..Len(rows) |->
        [rows[r] EXCEPT !.Year = ToNumeric(@),
                        !.Month = ToNumeric(@),
                        !.Price = ToNumeric(@),
                        !.Unit = NormalizeUnit(@)]]

\* What a call leaves behind: the value returned and the st.error messages,
\* or the exception that leaves the function
Return(value, errs) == [k |-> "return", value |-> value, errors |-> errs]

Raise(exc) == [k |-> "raise", exc |-> exc]

\* the try block of load_data / load_commodity_data of app.py and Sen_agricost.py
TryLoadApp(wb) ==
    IF wb = MissingFile THEN Raise("FileNotFoundError")
    ELSE IF wb.corrupt THEN Raise("Exception")
    ELSE IF MissingColumns(required_columns_app, wb.columns) # <<>>
    THEN Return(None, <<[msg |-> "Missing required columns",
                         cols |-> MissingColumns(required_columns_app, wb.columns)]>>)
    ELSE Return([df |-> CleanApp(wb.rows), retail_df |-> None, farmgate_df |-> None], <<>>)

\* the try block of the v2 load_commodity_data
TryLoadV2(wb) ==
    IF wb = MissingFile
    THEN Return(None, <<[msg |-> "File not found", cols |-> <<>>]>>)
    ELSE IF wb.corrupt THEN Raise("Exception")
    ELSE IF MissingColumns(required_columns_v2, wb.columns) # <<>>
    THEN Return(None, <<[msg |-> "Missing required columns",
                         cols |-> MissingColumns(required_columns_v2, wb.columns)]>>)
    ELSE IF \/ StrAccessorRaises(wb.rows, "commodity_retail")
            \/ StrAccessorRaises(wb.rows, "commodity_farmgate_en")
    THEN Raise("AttributeError")
    ELSE Return(FrameV2(wb.rows), <<>>)

\* without the except clauses the exception leaves the loader
ExceptNothing(d, outcome) == outcome

\* except FileNotFoundError: ... return None / except Exception as e: ... return None
Except(d, outcome) ==
    IF outcome.k = "return" THEN outcome
    ELSE IF d # "v2" /\ outcome.exc = "FileNotFoundError"
    THEN Return(None, <<[msg |-> "Input file not found", cols |-> <<>>]>>)
    ELSE Return(None, <<[msg |-> IF d = "v2" THEN "Error loading commodity data"
                                 ELSE "Error loading file",
                         cols |-> <<>>]>>)

load_commodity_data(d, wb) ==
    Except(d, IF d = "v2" THEN TryLoadV2(wb) ELSE TryLoadApp(wb))

(***************************************************************************)
(* load_geospatial_data (Sen_agricost.py, v2).  geo_files tells, per       *)
(* layer, whether its file exists and whether reading it raises.           *)
(***************************************************************************)
Layers == <<"travel", "friction", "markets", "roads">>

NoLayers ==
    [travel_data |-> None, travel_bounds |-> None, friction_data |-> None,
     friction_bounds |-> None, markets |-> None, roads |-> None]

\* the assignments made when the file of a layer has been read
Loaded(out, layer) ==
    CASE layer = "travel" ->
            [out EXCEPT !.travel_data = Str("travel_data"), !.travel_bounds = Str("src.bounds")]
      [] layer = "friction" ->
            [out EXCEPT !.friction_data = Str("friction_data"),
                        !.friction_bounds = Str("src.bounds")]
      [] layer = "markets" -> [out EXCEPT !.markets = Str("markets")]
      [] layer = "roads" -> [out EXCEPT !.roads = Str("roads")]

GeoReturn(value, warns) == [k |-> "return", value |-> value, warnings |-> warns, errors |-> <<>>]

GeoRaise(warns) == [k |-> "raise", warnings |-> warns]

RECURSIVE TryLoadGeoStopAtMissing(_, _, _, _)
\* a loader that gives up at the first file that does not exist
TryLoadGeoStopAtMissing(files, n, out, warns) ==
    IF n > Len(Layers) THEN GeoReturn(out, warns)
    ELSE IF ~files.exists[Layers[n]]
    THEN GeoReturn(out, Append(warns, Layers[n]))
    ELSE IF Layers[n] \in files.broken THEN GeoRaise(warns)
    ELSE TryLoadGeoStopAtMissing(files, n + 1, Loaded(out, Layers[n]), warns)

RECURSIVE TryLoadGeo(_, _, _, _)
\* the try block from layer n on: if os.path.exists(path): read; else: st.warning
TryLoadGeo(files, n, out, warns) ==
    IF n > Len(Layers) THEN GeoReturn(out, warns)
    ELSE IF ~files.exists[Layers[n]]
    THEN TryLoadGeo(files, n + 1, out, Append(warns, Layers[n]))
    ELSE IF Layers[n] \in files.broken THEN GeoRaise(warns)
    ELSE TryLoadGeo(files, n + 1, Loaded(out, Layers[n]), warns)

\* except Exception as e: st.error(...); return None, None, None, None, None, None
load_geospatial_data(files) ==
    LET outcome == TryLoadGeo(files, 1, NoLayers, <<>>)
    IN IF outcome.k = "return" THEN outcome
       ELSE [k |-> "return", value |-> NoLayers, warnings |-> outcome.warnings,
             errors |-> <<[msg |-> "Error loading geospatial data", cols |-> <<>>]>>]

(***************************************************************************)
(* generate_raster_images: the threshold tables.  Travel times are in      *)
(* minutes; friction values are in thousandths of a min/m, so that the     *)
(* breakpoints 0.001 .. 5.0 are the integers 1 .. 5000.                    *)
(***************************************************************************)
travel_breaks == <<Num(0), Num(10), Num(30), Num(60), Num(120), Num(240), Num(1440), Inf>>

travel_colors ==
    << <<255, 255, 204>>, <<255, 237, 160>>, <<254, 178, 76>>, <<253, 141, 60>>,
       <<240, 59, 32>>, <<189, 0, 38>>, <<128, 0, 38>> >>

friction_breaks ==
    <<Num(0), Num(1), Num(10), Num(100), Num(500), Num(1000), Num(2000), Num(5000), Inf>>

friction_colors ==
    << <<0, 104, 55>>, <<49, 163, 84>>, <<120, 198, 121>>, <<194, 230, 153>>,
       <<253, 174, 97>>, <<244, 109, 67>>, <<165, 0, 38>>, <<128, 0, 38>> >>

\* np.zeros((h, w, 3), dtype=np.uint8) at one pixel
Black == <<0, 0, 0>>

\* mask = (data >= breaks[i]) & (data < breaks[i+1]) at one pixel.  The mask
\* is computed from the data under the pixel, whether or not it is masked.
\* (b is Python's 0-based i; sequences here are 1-based.)
BandMaskClosedAbove(px, breaks, b) ==
    Ge(px.v, breaks[b + 1]) /\ (Lt(px.v, breaks[b + 2]) \/ px.v = breaks[b + 2])

BandMask(px, breaks, b) == Ge(px.v, breaks[b + 1]) /\ Lt(px.v, breaks[b + 2])

\* rgb[:, :, j][mask] = colors[i][j] for j in range(3), at one pixel
Paint(rgb, px, breaks, colors, b) ==
    IF BandMask(px, breaks, b) THEN colors[b + 1] ELSE rgb

(***************************************************************************)
(* load_geospatial_data: the masked array built from a raster band.        *)
(***************************************************************************)
\* Python truthiness of src.nodata: None and 0.0 are false, NaN is true
Truthy(nodata) == nodata # None /\ nodata # Num(0)

\* np.ma.masked_equal(band, nodata) if nodata else np.ma.masked_invalid(band)
MaskedArray(v, nodata) ==
    [v |-> v,
     masked |-> IF Truthy(nodata)
                THEN v.k # "nan" /\ nodata.k # "nan" /\ v = nodata
                ELSE v.k \in {"nan", "inf"}]

\* How far from each breakpoint the pixel values of the model lie
Spread == 1

Finite(breaks) == {breaks[b] : b \in 1..(Len(breaks) - 1)}

PixelValues(breaks) ==
    {Num(x.n + d) : x \in Finite(breaks), d \in (0 - Spread)..Spread} \cup {Inf, NaN}

Nodatas == {None, Num(0), Num(0 - 1)}

Rasters(breaks) ==
    {None} \cup {MaskedArray(v, nd) : v \in PixelValues(breaks), nd \in Nodatas}

InitRaster ==
    /\ travel_data \in Rasters(travel_breaks)
    /\ friction_data \in Rasters(friction_breaks)
    /\ travel_bounds = IF travel_data = None THEN None ELSE Str("travel bounds")
    /\ friction_bounds = IF friction_data = None THEN None ELSE Str("friction bounds")
    /\ travel_rgb = None
    /\ friction_rgb = None
    /\ rpc = "travel"
    /\ i = 0
    /\ painted = [travel |-> {}, friction |-> {}]
    /\ png = [travel |-> None, friction |-> None, bounds |-> None]

IdleRaster ==
    /\ travel_data = None
    /\ friction_data = None
    /\ travel_bounds = None
    /\ friction_bounds = None
    /\ travel_rgb = None
    /\ friction_rgb = None
    /\ rpc = "idle"
    /\ i = 0
    /\ painted = [travel |-> {}, friction |-> {}]
    /\ png = [travel |-> None, friction |-> None, bounds |-> None]

IdleMain ==
    /\ pc = "idle"
    /\ file = MissingFile
    /\ geo_files = None
    /\ df = None
    /\ retail_df = None
    /\ farmgate_df = None
    /\ errors = <<>>
    /\ warnings = <<>>
    /\ geo = None
    /\ paths = None
    /\ selected = None
    /\ map_out = None
    /\ shown = None
    /\ steps = <<>>

IdleScript ==
    /\ text = <<>>
    /\ sents = None
    /\ sent = 0
    /\ prices = <<>>
    /\ margin_df = None
    /\ spc = "idle"

IdleMarkers ==
    /\ region_rows = <<>>
    /\ grouped = None
    /\ markers = <<>>
    /\ mpc = "idle"
    /\ g = 0

IdleMarker ==
    /\ dash = "none"
    /\ IdleMarkers

\* if travel_data is not None and travel_bounds is not None: travel_rgb = np.zeros(...)
TravelBegin ==
    /\ rpc = "travel"
    /\ IF travel_data # None /\ travel_bounds # None
       THEN travel_rgb' = Black /\ rpc' = "travel_loop"
       ELSE travel_rgb' = travel_rgb /\ rpc' = "friction"
    /\ i' = 0
    /\ UNCHANGED <<travel_data, friction_data, friction_rgb, travel_bounds,
                   friction_bounds, painted, png>>
    /\ UNCHANGED notRaster

\* one pass of: for i in range(len(travel_breaks) - 1)
TravelBand ==
    /\ rpc = "travel_loop"
    /\ i < Len(travel_breaks) - 1
    /\ travel_rgb' = Paint(travel_rgb, travel_data, travel_breaks, travel_colors, i)
    /\ painted' = IF BandMask(travel_data, travel_breaks, i)
                  THEN [painted EXCEPT !.travel = @ \cup {i}]
                  ELSE painted
    /\ i' = i + 1
    /\ UNCHANGED <<travel_data, friction_data, friction_rgb, rpc, travel_bounds,
                   friction_bounds, png>>
    /\ UNCHANGED notRaster

\* travel_png_path = 'travel_time_colored.png'; Image.fromarray(travel_rgb).save(...)
TravelSave ==
    /\ rpc = "travel_loop"
    /\ i = Len(travel_breaks) - 1
    /\ png' = [png EXCEPT !.travel = Str("travel_time_colored.png")]
    /\ rpc' = "friction"
    /\ UNCHANGED <<travel_data, friction_data, travel_rgb, friction_rgb, i,
                   travel_bounds, friction_bounds, painted>>
    /\ UNCHANGED notRaster

FrictionBegin ==
    /\ rpc = "friction"
    /\ IF friction_data # None /\ friction_bounds # None
       THEN friction_rgb' = Black /\ rpc' = "friction_loop"
       ELSE friction_rgb' = friction_rgb /\ rpc' = "bounds"
    /\ i' = 0
    /\ UNCHANGED <<travel_data, friction_data, travel_rgb, travel_bounds,
                   friction_bounds, painted, png>>
    /\ UNCHANGED notRaster

FrictionBand ==
    /\ rpc = "friction_loop"
    /\ i < Len(friction_breaks) - 1
    /\ friction_rgb' = Paint(friction_rgb, friction_data, friction_breaks, friction_colors, i)
    /\ painted' = IF BandMask(friction_data, friction_breaks, i)
                  THEN [painted EXCEPT !.friction = @ \cup {i}]
                  ELSE painted
    /\ i' = i + 1
    /\ UNCHANGED <<travel_data, friction_data, travel_rgb, rpc, travel_bounds,
                   friction_bounds, png>>
    /\ UNCHANGED notRaster

FrictionSave ==
    /\ rpc = "friction_loop"
    /\ i = Len(friction_breaks) - 1
    /\ png' = [png EXCEPT !.friction = Str("friction_surface_colored.png")]
    /\ rpc' = "bounds"
    /\ UNCHANGED <<travel_data, friction_data, travel_rgb, friction_rgb, i,
                   travel_bounds, friction_bounds, painted>>
    /\ UNCHANGED notRaster

\* image_bounds from travel_bounds, else from friction_bounds; return
ImageBounds ==
    /\ rpc = "bounds"
    /\ png' = [png EXCEPT !.bounds = IF travel_bounds # None THEN travel_bounds
                                      ELSE IF friction_bounds # None THEN friction_bounds
                                      ELSE None]
    /\ rpc' = "done"
    /\ UNCHANGED <<travel_data, friction_data, travel_rgb, friction_rgb, i,
                   travel_bounds, friction_bounds, painted>>
    /\ UNCHANGED notRaster

NextRaster ==
    \/ TravelBegin
    \/ TravelBand
    \/ TravelSave
    \/ FrictionBegin
    \/ FrictionBand
    \/ FrictionSave
    \/ ImageBounds

RasterInit == InitRaster /\ IdleMarker /\ IdleMain /\ IdleScript

SpecRaster == RasterInit /\ [][NextRaster]_vars

(***************************************************************************)
(* main() of the three dashboards.  One run of main is one page rerun.     *)
(* The loaders are st.cache_data functions: a cache hit replays the value  *)
(* and the messages of the first call, which is what calling them again on *)
(* unchanged files gives.                                                  *)
(***************************************************************************)
Dashboards == {"app", "sen", "v2"}

Frame(rows) == [rows |-> rows]

YearCol(d) == IF d = "v2" THEN "year" ELSE "Year"

MonthCol(d) == IF d = "v2" THEN "month" ELSE "Month"

\* df[col].dropna().unique()
Unique(rows, col) == {rows[r][col] : r \in 1..Len(rows)} \ {NULL}

\* the options of the commodity multiselect
Commodities(d, rows) ==
    IF d = "v2"
    THEN Unique(rows, "commodity_retail") \cup Unique(rows, "commodity_farmgate_en")
    ELSE Unique(rows, "Commodity")

\* a filter on year and month alone
FilterMapAnyCommodity(d, rows, sel) ==
    Filter(rows,
           {r \in 1..Len(rows) :
               rows[r][YearCol(d)] = sel.year /\ rows[r][MonthCol(d)] = sel.month},
           1)

\* filtered_df of generate_map
FilterMap(d, rows, sel) ==
    Filter(rows,
           {r \in 1..Len(rows) :
               /\ rows[r][YearCol(d)] = sel.year
               /\ rows[r][MonthCol(d)] = sel.month
               /\ CASE d = "app" -> TRUE
                    [] d = "sen" -> rows[r].Commodity \in sel.commodities
                    [] d = "v2" -> \/ rows[r].commodity_retail \in sel.commodities
                                   \/ rows[r].commodity_farmgate_en \in sel.commodities},
           1)

\* travel_png_path / friction_png_path: set when data and bounds are there
PngPath(data, bounds, name) == IF data # None /\ bounds # None THEN Str(name) ELSE None

\* generate_raster_images, as main sees it: the three values returned
generate_raster_images(layers) ==
    [travel |-> PngPath(layers.travel_data, layers.travel_bounds, "travel_time_colored.png"),
     friction |-> PngPath(layers.friction_data, layers.friction_bounds,
                          "friction_surface_colored.png"),
     bounds |-> IF layers.travel_bounds # None THEN layers.travel_bounds
                ELSE IF layers.friction_bounds # None THEN layers.friction_bounds
                ELSE None]

market_keys == <<"market_id", "commodity_retail", "year", "month">>

\* market_grouped after its first groupby: a row per market, commodity, year
\* and month of filtered_df (the market's name and coordinates go with its id)
MarketGrouped(rows) ==
    LET keys == GroupKeys(rows, market_keys)
    IN [x \in 1..Len(keys) |->
           LET grp == GroupRows(rows, market_keys, keys[x])
           IN [market_id |-> keys[x].market_id,
               commodity_retail |-> keys[x].commodity_retail,
               price_retail |-> MeanOfMeans(Column(grp, "price_retail")),
               unit2_retail |-> First(Column(grp, "unit2_retail"))]]

region_keys == <<"region_id", "commodity_farmgate_en", "year", "month">>

\* region_grouped after its first groupby
RegionGrouped(rows) ==
    LET keys == GroupKeys(rows, region_keys)
    IN [x \in 1..Len(keys) |->
           LET grp == GroupRows(rows, region_keys, keys[x])
           IN [region_id |-> keys[x].region_id,
               commodity_farmgate_en |-> keys[x].commodity_farmgate_en,
               price_farmgate |-> MeanOfMeans(Column(grp, "price_farmgate")),
               unit2_farmgate |-> First(Column(grp, "unit2_farmgate"))]]

\* groupby(place).agg({commodity: list, price: list, unit: list}) and the
\* marker loop: one popup per place, listing its rows in frame order
Popups(rows, id, commodity, price, unit) ==
    LET keys == GroupKeys(rows, <<id>>)
    IN [x \in 1..Len(keys) |->
           LET grp == GroupRows(rows, <<id>>, keys[x])
           IN [id |-> keys[x][id],
               commodities |-> Column(grp, commodity),
               prices |-> Column(grp, price),
               units |-> Column(grp, unit),
               commodity_count |-> Len(grp)]]

\* generate_map, as main sees it: map_obj, filtered_df and the popups of the
\* markers on the map.  app.py returns (None, [], None) when filtered_df is
\* empty; the others always return a map, without markers when it is empty
generate_map(d, rows, sel) ==
    LET filtered_df == FilterMap(d, rows, sel)
    IN IF d = "app" /\ filtered_df = <<>>
       THEN [map_obj |-> None, filtered_df |-> None,
             market_popups |-> <<>>, region_popups |-> <<>>]
       ELSE [map_obj |-> Str("folium.Map"),
             filtered_df |-> Frame(filtered_df),
             market_popups |->
                 IF d = "v2"
                 THEN Popups(MarketGrouped(filtered_df), "market_id", "commodity_retail",
                             "price_retail", "unit2_retail")
                 ELSE <<>>,
             region_popups |->
                 IF d = "v2"
                 THEN Popups(RegionGrouped(filtered_df), "region_id",
                             "commodity_farmgate_en", "price_farmgate", "unit2_farmgate")
                 ELSE Popups(filtered_df, "RegionId", "Commodity", "Price", "Unit")]

\* if df is None: return
AfterLoadGoesOn(d, value) == IF d = "app" THEN "yearmonth" ELSE "commodities"

AfterLoad(d, value) ==
    IF value = None THEN "done" ELSE IF d = "app" THEN "yearmonth" ELSE "commodities"

\* st.title(...), st.markdown(...), the map style selectbox
MainStart ==
    /\ pc = "start"
    /\ steps' = Append(steps, "title")
    /\ pc' = "load"
    /\ UNCHANGED <<dash, file, geo_files, df, retail_df, farmgate_df, errors, warnings,
                   geo, paths, selected, map_out, shown>>
    /\ UNCHANGED notMain

\* df = load_commodity_data(); if df is None: return
LoadCommodity ==
    /\ pc = "load"
    /\ LET out == load_commodity_data(dash, file)
       IN IF out.k = "raise"
          THEN /\ pc' = "crashed"
               /\ UNCHANGED <<df, retail_df, farmgate_df, errors>>
          ELSE /\ pc' = AfterLoad(dash, out.value)
               /\ df' = IF out.value = None THEN None ELSE Frame(out.value.df)
               /\ retail_df' = IF out.value = None \/ dash # "v2" THEN None
                               ELSE Frame(out.value.retail_df)
               /\ farmgate_df' = IF out.value = None \/ dash # "v2" THEN None
                                 ELSE Frame(out.value.farmgate_df)
               /\ errors' = errors \o out.errors
    /\ steps' = Append(steps, "load")
    /\ UNCHANGED <<dash, file, geo_files, warnings, geo, paths, selected, map_out, shown>>
    /\ UNCHANGED notMain

\* selected_commodities = st.sidebar.multiselect("Select Commodities", commodities, ...)
SelectCommodities ==
    /\ pc = "commodities"
    /\ \E chosen \in SUBSET Commodities(dash, df.rows) :
           selected' = [selected EXCEPT !.commodities = chosen]
    /\ steps' = Append(steps, "commodities")
    /\ pc' = "geo"
    /\ UNCHANGED <<dash, file, geo_files, df, retail_df, farmgate_df, errors, warnings,
                   geo, paths, map_out, shown>>
    /\ UNCHANGED notMain

\* travel_data, ..., roads = load_geospatial_data(...)
LoadGeo ==
    /\ pc = "geo"
    /\ LET out == load_geospatial_data(geo_files)
       IN /\ geo' = out.value
          /\ warnings' = warnings \o out.warnings
          /\ errors' = errors \o out.errors
    /\ steps' = Append(steps, "geo")
    /\ pc' = "raster"
    /\ UNCHANGED <<dash, file, geo_files, df, retail_df, farmgate_df, paths, selected,
                   map_out, shown>>
    /\ UNCHANGED notMain

\* travel_png_path, friction_png_path, image_bounds = generate_raster_images(...)
GenerateRasterImages ==
    /\ pc = "raster"
    /\ paths' = generate_raster_images(geo)
    /\ steps' = Append(steps, "raster")
    /\ pc' = "yearmonth"
    /\ UNCHANGED <<dash, file, geo_files, df, retail_df, farmgate_df, errors, warnings,
                   geo, selected, map_out, shown>>
    /\ UNCHANGED notMain

\* years, months; if not years or not months: st.error(...); return
NoYearMonth ==
    /\ pc = "yearmonth"
    /\ Unique(df.rows, YearCol(dash)) = {} \/ Unique(df.rows, MonthCol(dash)) = {}
    /\ errors' = Append(errors, [msg |-> "No valid years or months", cols |-> <<>>])
    /\ steps' = Append(steps, "no_yearmonth")
    /\ pc' = "done"
    /\ UNCHANGED <<dash, file, geo_files, df, retail_df, farmgate_df, warnings, geo,
                   paths, selected, map_out, shown>>
    /\ UNCHANGED notMain

\* selected_year = st.selectbox(...); selected_month = st.selectbox(...)
SelectYearMonth ==
    /\ pc = "yearmonth"
    /\ \E y \in Unique(df.rows, YearCol(dash)), m \in Unique(df.rows, MonthCol(dash)) :
           selected' = [selected EXCEPT !.year = y, !.month = m]
    /\ steps' = Append(steps, "yearmonth")
    /\ pc' = "map"
    /\ UNCHANGED <<dash, file, geo_files, df, retail_df, farmgate_df, errors, warnings,
                   geo, paths, map_out, shown>>
    /\ UNCHANGED notMain

\* map_obj, regions_mapped, filtered_df = generate_map(...)
GenerateMap ==
    /\ pc = "map"
    /\ map_out' = generate_map(dash, df.rows, selected)
    /\ steps' = Append(steps, "generate_map")
    /\ pc' = "display"
    /\ UNCHANGED <<dash, file, geo_files, df, retail_df, farmgate_df, errors, warnings,
                   geo, paths, selected, shown>>
    /\ UNCHANGED notMain

\* what main draws once generate_map has returned: the map, then the table
\* (and its download button) or, in v2, the price chart
Drawn(d, out) ==
    IF out.map_obj = None THEN <<>>
    ELSE <<"map">>
         \o (IF out.filtered_df = None \/ out.filtered_df.rows = <<>> THEN <<>>
             ELSE CASE d = "app" -> <<"table">>
                    [] d = "sen" -> <<"table", "download">>
                    [] d = "v2" -> <<"chart">>)

\* display_df['Price'].apply(...): a price as text, 'N/A' for NaN
FormatPrice(c) == IF IsNa(c) THEN Str("N/A") ELSE c

\* display_df of app.py and Sen_agricost.py: the region, commodity, price and
\* unit of every row of filtered_df, sorted by region and commodity
DisplayDf(rows) ==
    SortRows([r \in 1..Len(rows) |->
                 [RegionId |-> rows[r].RegionId, Commodity |-> rows[r].Commodity,
                  Price |-> FormatPrice(rows[r].Price), Unit |-> rows[r].Unit]],
             1..Len(rows), <<"RegionId", "Commodity">>)

\* year_df of the v2 main: the rows of the selected year, of any month
YearDf(rows, sel) ==
    Filter(rows,
           {r \in 1..Len(rows) :
               /\ rows[r].year = sel.year
               /\ \/ rows[r].commodity_retail \in sel.commodities
                  \/ rows[r].commodity_farmgate_en \in sel.commodities},
           1)

\* retail_price_df / farmgate_price_df: year_df[notna][cols].groupby(commodity).agg(...)
PriceDf(rows, commodity, price, unit) ==
    LET kept == NotNa(rows, commodity)
        keys == GroupKeys(kept, <<commodity>>)
    IN [x \in 1..Len(keys) |->
           LET grp == GroupRows(kept, <<commodity>>, keys[x])
           IN [commodity |-> keys[x][commodity],
               price |-> MeanOfMeans(Column(grp, price)),
               unit |-> First(Column(grp, unit))]]

\* the bars of the price chart: for each of all_commodities its retail price,
\* its farmgate price (NaN where a side has no row) and the unit under it
Chart(rows, sel) ==
    LET year_df == YearDf(rows, sel)
        retail_price_df == PriceDf(year_df, "commodity_retail", "price_retail", "unit2_retail")
        farmgate_price_df == PriceDf(year_df, "commodity_farmgate_en", "price_farmgate",
                                     "unit2_farmgate")
        all_commodities ==
            SortKeys({[commodity |-> c] :
                         c \in Unique(retail_price_df, "commodity")
                                \cup Unique(farmgate_price_df, "commodity")},
                     <<"commodity">>)
    IN [x \in 1..Len(all_commodities) |->
           LET retail_row == SelectSeq(retail_price_df,
                                       LAMBDA row : row.commodity = all_commodities[x].commodity)
               farmgate_row == SelectSeq(farmgate_price_df,
                                         LAMBDA row : row.commodity = all_commodities[x].commodity)
           IN [commodity |-> all_commodities[x].commodity,
               retail_price |-> IF retail_row # <<>> THEN retail_row[1].price ELSE NULL,
               farmgate_price |-> IF farmgate_row # <<>> THEN farmgate_row[1].price ELSE NULL,
               unit |-> IF retail_row # <<>> THEN retail_row[1].unit
                        ELSE IF farmgate_row # <<>> THEN farmgate_row[1].unit
                        ELSE Str("Unknown")]]

\* the table and the chart main draws under the map
Shown(d, rows, sel, out) ==
    IF out.map_obj = None \/ out.filtered_df = None \/ out.filtered_df.rows = <<>>
    THEN [table |-> None, chart |-> None]
    ELSE IF d = "v2"
    THEN [table |-> None, chart |-> Frame(Chart(rows, sel))]
    ELSE [table |-> Frame(DisplayDf(out.filtered_df.rows)), chart |-> None]

\* if map_obj: folium_static(map_obj, ...) ... else: st.write(...)
Display ==
    /\ pc = "display"
    /\ steps' = steps \o Drawn(dash, map_out)
    /\ shown' = Shown(dash, df.rows, selected, map_out)
    /\ pc' = "done"
    /\ UNCHANGED <<dash, file, geo_files, df, retail_df, farmgate_df, errors, warnings,
                   geo, paths, selected, map_out>>
    /\ UNCHANGED notMain

NoSelection == [year |-> NULL, month |-> NULL, commodities |-> {}]

\* the page reruns: main starts again from the top, its locals gone
Rerun ==
    /\ pc \in {"done", "crashed"}
    /\ pc' = "start"
    /\ df' = None
    /\ retail_df' = None
    /\ farmgate_df' = None
    /\ errors' = <<>>
    /\ warnings' = <<>>
    /\ geo' = None
    /\ paths' = None
    /\ selected' = NoSelection
    /\ map_out' = None
    /\ shown' = None
    /\ steps' = <<>>
    /\ UNCHANGED <<dash, file, geo_files>>
    /\ UNCHANGED notMain

Next ==
    \/ MainStart
    \/ LoadCommodity
    \/ SelectCommodities
    \/ LoadGeo
    \/ GenerateRasterImages
    \/ NoYearMonth
    \/ SelectYearMonth
    \/ GenerateMap
    \/ Display
    \/ Rerun

(***************************************************************************)
(* The files main can find on disk.                                        *)
(***************************************************************************)
MaxRows == 2

MaxMissing == 2

Rice == Text(<<"R", "i", "c", "e">>)

Maize == Text(<<"M", "a", "i", "z", "e">>)

\* a row of Senegal_Food_Prices.xlsx (app.py, Sen_agricost.py)
RowsApp ==
    [Year : {Num(2016), NULL}, Month : {Num(1)}, Commodity : {Rice, Maize},
     RegionId : {Num(1)}, Price : {Num(100)}, Unit : {Str("kg"), NULL}]

\* a row of Senegal_Merged_Food_Prices.xlsx (v2)
RowsV2 ==
    [market_id : {Num(1)}, year : {Num(2016)}, month : {Num(1), Num(2)},
     commodity_retail : {Rice, NULL}, price_retail : {Num(10)},
     unit_retail : {Str("kg")}, unit2_retail : {NULL},
     region_id : {Num(1)}, commodity_farmgate_en : {Maize, NULL},
     price_farmgate : {Num(20)}, unit_farmgate : {NULL}, unit2_farmgate : {Str("kg")}]

\* rows as the v2 deduplication and merge have to deal with them: repeated
\* keys with different prices, keys with a missing field, months on one side
RowsV2Dedup ==
    [market_id : {Num(1), NULL}, year : {Num(2016)}, month : {Num(1), Num(2)},
     commodity_retail : {Rice, NULL}, price_retail : {Num(10), Num(30)},
     unit_retail : {Str("kg")}, unit2_retail : {NULL},
     region_id : {Num(1)}, commodity_farmgate_en : {Maize, NULL},
     price_farmgate : {Num(20)}, unit_farmgate : {Str("kg")}, unit2_farmgate : {Str("kg")}]

Tables(rows) == UNION {[1..n -> rows] : n \in 0..MaxRows}

RECURSIVE SubsetsUpTo(_, _)
SubsetsUpTo(S, n) ==
    IF n = 0 THEN {{}}
    ELSE SubsetsUpTo(S, n - 1) \cup {T \cup {x} : T \in SubsetsUpTo(S, n - 1), x \in S}

\* the workbooks in which up to MaxMissing required columns are absent
Incomplete(d) ==
    {Workbook(Range(required_columns(d)) \ S, <<>>, FALSE) :
        S \in SubsetsUpTo(Range(required_columns(d)), MaxMissing) \ {{}}}

Files(d) ==
    {MissingFile, Workbook(Range(required_columns(d)), <<>>, TRUE)}
    \cup Incomplete(d)
    \cup {Workbook(Range(required_columns(d)), rows, FALSE) :
             rows \in Tables(IF d = "v2" THEN RowsV2 ELSE RowsApp)}

GeoFiles(exists, broken) == [exists |-> exists, broken |-> broken]

AllLayers == [layer \in Range(Layers) |-> TRUE]

\* every combination of files that are absent, readable or unreadable
GeoFilesAll ==
    {GeoFiles(exists, broken) :
        exists \in [Range(Layers) -> BOOLEAN], broken \in SUBSET Range(Layers)}
    \cap {f \in [exists : [Range(Layers) -> BOOLEAN], broken : SUBSET Range(Layers)] :
             \A layer \in f.broken : f.exists[layer]}

\* main has not been called yet
InitRun ==
    /\ pc = "start"
    /\ df = None
    /\ retail_df = None
    /\ farmgate_df = None
    /\ errors = <<>>
    /\ warnings = <<>>
    /\ geo = None
    /\ paths = None
    /\ selected = NoSelection
    /\ map_out = None
    /\ shown = None
    /\ steps = <<>>

\* the three dashboards, over the files each can find
Init ==
    /\ dash \in Dashboards
    /\ file \in Files(dash)
    /\ geo_files \in IF dash = "app" THEN {None}
                     ELSE {GeoFiles(AllLayers, {}),
                           GeoFiles([layer \in Range(Layers) |-> layer = "travel"], {})}
    /\ InitRun
    /\ IdleMarkers
    /\ IdleRaster
    /\ IdleScript

Spec == Init /\ [][Next]_vars

\* a workbook of one complete row
GoodRows(d) ==
    IF d = "v2"
    THEN <<CHOOSE row \in RowsV2 : /\ row.commodity_retail = Rice
                                   /\ row.commodity_farmgate_en = Maize
                                   /\ row.month = Num(1)>>
    ELSE <<CHOOSE row \in RowsApp : /\ row.Year = Num(2016)
                                    /\ row.Commodity = Rice
                                    /\ row.Unit = Str("kg")>>

\* Sen_agricost.py and v2 with a workbook of one row or of none, over every
\* state of the four geospatial files
InitGeo ==
    /\ dash \in {"sen", "v2"}
    /\ file \in {Workbook(Range(required_columns(dash)), rows, FALSE) :
                    rows \in {<<>>, GoodRows(dash)}}
    /\ geo_files \in GeoFilesAll
    /\ InitRun
    /\ IdleMarkers
    /\ IdleRaster
    /\ IdleScript

SpecGeo == InitGeo /\ [][Next]_vars

\* v2 up to the return of its loader, over the tables of RowsV2Dedup
InitV2 ==
    /\ dash = "v2"
    /\ file \in {Workbook(Range(required_columns_v2), rows, FALSE) :
                    rows \in Tables(RowsV2Dedup)}
    /\ geo_files = GeoFiles(AllLayers, {})
    /\ InitRun
    /\ IdleMarkers
    /\ IdleRaster
    /\ IdleScript

NextV2 ==
    \/ MainStart
    \/ LoadCommodity
    \/ Rerun

SpecV2 == InitV2 /\ [][NextV2]_vars

(***************************************************************************)
(* generate_map: the legends drawn over the raster overlays.  A colour is  *)
(* the six hex digits of its CSS notation.                                 *)
(***************************************************************************)
\* Travel Time (min): "0-10" .. "240-1440" are [lo, hi]; ">1440" is [gt]
travel_legend ==
    << [lo |-> 0, hi |-> 10, gt |-> FALSE, color |-> <<"f", "f", "f", "f", "c", "c">>],
       [lo |-> 10, hi |-> 30, gt |-> FALSE, color |-> <<"f", "f", "e", "d", "a", "0">>],
       [lo |-> 30, hi |-> 60, gt |-> FALSE, color |-> <<"f", "e", "b", "2", "4", "c">>],
       [lo |-> 60, hi |-> 120, gt |-> FALSE, color |-> <<"f", "d", "8", "d", "3", "c">>],
       [lo |-> 120, hi |-> 240, gt |-> FALSE, color |-> <<"f", "0", "3", "b", "2", "0">>],
       [lo |-> 240, hi |-> 1440, gt |-> FALSE, color |-> <<"b", "d", "0", "0", "2", "6">>],
       [lo |-> 1440, hi |-> 1440, gt |-> TRUE, color |-> <<"8", "0", "0", "0", "2", "6">>] >>

\* Friction (min/m), in thousandths: "<= 0.001" .. "<= 5.0" are [hi]; "> 5.0" is [gt]
friction_legend ==
    << [hi |-> 1, gt |-> FALSE, color |-> <<"0", "0", "6", "8", "3", "7">>],
       [hi |-> 10, gt |-> FALSE, color |-> <<"3", "1", "a", "3", "5", "4">>],
       [hi |-> 100, gt |-> FALSE, color |-> <<"7", "8", "c", "6", "7", "9">>],
       [hi |-> 500, gt |-> FALSE, color |-> <<"c", "2", "e", "6", "9", "9">>],
       [hi |-> 1000, gt |-> FALSE, color |-> <<"f", "d", "a", "e", "6", "1">>],
       [hi |-> 2000, gt |-> FALSE, color |-> <<"f", "4", "6", "d", "4", "3">>],
       [hi |-> 5000, gt |-> FALSE, color |-> <<"a", "5", "0", "0", "2", "6">>],
       [hi |-> 5000, gt |-> TRUE, color |-> <<"8", "0", "0", "0", "2", "6">>] >>

HexDigits == <<"0", "1", "2", "3", "4", "5", "6", "7", "8", "9", "a", "b", "c", "d", "e", "f">>

HexVal(c) == (CHOOSE d \in 1..16 : HexDigits[d] = c) - 1

\* The RGB triple a browser draws for the CSS colour #h1h2h3h4h5h6
HexToRgb(h) ==
    <<16 * HexVal(h[1]) + HexVal(h[2]), 16 * HexVal(h[3]) + HexVal(h[4]),
      16 * HexVal(h[5]) + HexVal(h[6])>>

\* The legend entry whose label describes the friction value x >= 0
FrictionLegendEntry(x) ==
    LET first == CHOOSE e \in 1..Len(friction_legend) :
                     /\ IF friction_legend[e].gt THEN x > friction_legend[e].hi
                                                 ELSE x <= friction_legend[e].hi
                     /\ \A d \in 1..(e - 1) : x > friction_legend[d].hi
    IN friction_legend[first]

RasterDone(p) == p \in {"bounds", "done"}

TravelDone(p) == p \in {"friction", "friction_loop", "bounds", "done"}

Unmasked(data) == data # None /\ ~data.masked

\* The bands of a table that hold the number x, by the table's numbers alone
BandsOf(x, breaks) ==
    {b \in 0..(Len(breaks) - 2) :
        /\ breaks[b + 1].n <= x
        /\ (breaks[b + 2].k = "inf" \/ x < breaks[b + 2].n)}

Classified(data, rgb, hits, breaks, colors) ==
    (Unmasked(data) /\ IsNum(data.v)) =>
        IF data.v.n >= 0
        THEN /\ Cardinality(BandsOf(data.v.n, breaks)) = 1
             /\ hits = BandsOf(data.v.n, breaks)
             /\ \A b \in BandsOf(data.v.n, breaks) : rgb = colors[b + 1]
        ELSE hits = {} /\ rgb = Black

(***************************************************************************)
(* generate_map: the region markers.  filtered_df is held as the number of *)
(* its rows per region; groupby(...).agg(list) turns the rows of a region  *)
(* into one grouped row whose lists have that length.                      *)
(***************************************************************************)
MaxRegions == 2

MaxRegionRows == 11

\* color = 'blue' if commodity_count < 5 else 'orange' if commodity_count < 10 else 'red'
color_app(commodity_count) ==
    IF commodity_count < 5 THEN "blue" ELSE IF commodity_count < 10 THEN "orange" ELSE "red"

color_sen(commodity_count) ==
    IF commodity_count < 5 THEN "blue" ELSE IF commodity_count < 10 THEN "orange" ELSE "red"

color_v2_le10(commodity_count) ==
    IF commodity_count < 5 THEN "blue" ELSE IF commodity_count <= 10 THEN "orange" ELSE "red"

color_v2(commodity_count) ==
    IF commodity_count < 5 THEN "blue" ELSE IF commodity_count < 10 THEN "orange" ELSE "red"

color(d, commodity_count) ==
    CASE d = "app" -> color_app(commodity_count)
      [] d = "sen" -> color_sen(commodity_count)
      [] d = "v2" -> color_v2(commodity_count)

\* groupby(region).agg(list).reset_index(); commodity_count = len of the lists.
\* groupby yields the regions that have rows, in key order.
RECURSIVE GroupBy(_, _)
GroupBy(rows, r) ==
    IF r > Len(rows) THEN <<>>
    ELSE (IF rows[r] > 0 THEN <<[region |-> r, commodity_count |-> rows[r]]>> ELSE <<>>)
         \o GroupBy(rows, r + 1)

InitMarker ==
    /\ dash \in Dashboards
    /\ region_rows \in [1..MaxRegions -> 0..MaxRegionRows]
    /\ grouped = None
    /\ markers = <<>>
    /\ mpc = "filter"
    /\ g = 0

\* if filtered_df.empty: warn (app.py returns None, [], None); else group
Group ==
    /\ mpc = "filter"
    /\ IF \A r \in 1..MaxRegions : region_rows[r] = 0
       THEN /\ grouped' = None
            /\ mpc' = IF dash = "sen" THEN "layers" ELSE "returned"
       ELSE /\ grouped' = GroupBy(region_rows, 1)
            /\ mpc' = "markers"
    /\ UNCHANGED <<dash, region_rows, markers, g>>
    /\ UNCHANGED notMarker

\* one pass of: for _, row in grouped.iterrows(): ... folium.CircleMarker(...).add_to(m)
\* (the grouping keys hold no NaN, so the row is never skipped)
AddMarker ==
    /\ mpc = "markers"
    /\ g < Len(grouped)
    /\ markers' = Append(markers,
                         [region |-> grouped[g + 1].region,
                          commodity_count |-> grouped[g + 1].commodity_count,
                          color |-> color(dash, grouped[g + 1].commodity_count)])
    /\ g' = g + 1
    /\ UNCHANGED <<dash, region_rows, grouped, mpc>>
    /\ UNCHANGED notMarker

MarkersDone ==
    /\ mpc = "markers"
    /\ g = Len(grouped)
    /\ mpc' = "layers"
    /\ UNCHANGED <<dash, region_rows, grouped, markers, g>>
    /\ UNCHANGED notMarker

\* folium.LayerControl().add_to(m); return m, ...
LayerControl ==
    /\ mpc = "layers"
    /\ mpc' = "returned"
    /\ UNCHANGED <<dash, region_rows, grouped, markers, g>>
    /\ UNCHANGED notMarker

NextMarker ==
    \/ Group
    \/ AddMarker
    \/ MarkersDone
    \/ LayerControl

MarkerInit == InitMarker /\ IdleRaster /\ IdleMain /\ IdleScript

SpecMarker == MarkerInit /\ [][NextMarker]_vars

(* C8: every region marker drawn for a region with n >= 1 commodities is
   blue when n < 5, orange when 5 <= n <= 9 and red when n >= 10, so each
   marker has exactly one of the three colours, in all three dashboards. *)
C8_MarkerColor ==
    \A k \in 1..Len(markers) :
        LET n == markers[k].commodity_count
            c == markers[k].color
        IN /\ n >= 1
           /\ (c = "blue") = (n < 5)
           /\ (c = "orange") = (5 <= n /\ n <= 9)
           /\ (c = "red") = (n >= 10)

C8_Witness ==
    /\ mpc = "returned"
    /\ dash = "v2"
    /\ Len(markers) = 2
    /\ markers[1].commodity_count = 9 /\ markers[1].color = "orange"
    /\ markers[2].commodity_count = 10 /\ markers[2].color = "red"

(* C1: once a raster's band loop has run, an unmasked pixel with a finite
   value v >= 0 has been assigned by exactly one band, the only band i with
   breaks[i] <= v < breaks[i+1], and carries that band's colour; an unmasked
   pixel with v < 0 has been assigned by no band and is still (0,0,0); at no
   point of either loop has a pixel been assigned by two bands.  Both the
   travel-time and the friction table. *)
C1_UniqueBand ==
    /\ TravelDone(rpc) =>
           Classified(travel_data, travel_rgb, painted.travel, travel_breaks, travel_colors)
    /\ RasterDone(rpc) =>
           Classified(friction_data, friction_rgb, painted.friction, friction_breaks,
                      friction_colors)
    /\ Cardinality(painted.travel) <= 1
    /\ Cardinality(painted.friction) <= 1

C1_Witness ==
    /\ rpc = "done"
    /\ Unmasked(travel_data) /\ travel_data.v = Num(10) /\ travel_rgb = <<255, 237, 160>>
    /\ Unmasked(friction_data) /\ friction_data.v = Num(0 - 1) /\ friction_rgb = Black

(* C6: the friction overlay agrees with its legend: an unmasked finite
   friction value x >= 0 is drawn in the colour of the legend entry that
   describes it, "<= b" for the least listed b with x <= b and "> 5.0" only
   for x > 5.0. *)
C6_FrictionLegend ==
    (RasterDone(rpc) /\ Unmasked(friction_data) /\ IsNum(friction_data.v)
        /\ friction_data.v.n >= 0)
    => friction_rgb = HexToRgb(FrictionLegendEntry(friction_data.v.n).color)

(* C7: the travel-time overlay agrees with its legend: the ">1440" colour
   is given only to travel times above 1440 minutes, and a travel time of
   exactly 1440 minutes is drawn in the "240-1440" colour. *)
C7_TravelLegend ==
    (TravelDone(rpc) /\ Unmasked(travel_data) /\ IsNum(travel_data.v)) =>
        /\ travel_rgb = HexToRgb(travel_legend[7].color) => travel_data.v.n > travel_legend[7].lo
        /\ travel_data.v.n = travel_legend[6].hi => travel_rgb = HexToRgb(travel_legend[6].color)

(***************************************************************************)
(* The loaders and main.                                                   *)
(***************************************************************************)
\* the loader has just returned to main
LoaderReturned == steps # <<>> /\ steps[Len(steps)] = "load"

\* the loader has returned a table in this run
TableLoaded == "load" \in Range(steps) /\ df # None

KeyOf(row, keys) == Project(row, Range(keys))

HasKey(row, keys, col) == ~IsNa(row[col]) /\ \A c \in Range(keys) : ~IsNa(row[c])

\* the rows of a table that carry the given key
Carrying(rows, keys, key) == {x \in 1..Len(rows) : KeyOf(rows[x], keys) = key}

OneRowPerKey(input, table, keys, col) ==
    /\ \A a, b \in 1..Len(table) : KeyOf(table[a], keys) = KeyOf(table[b], keys) => a = b
    /\ \A r \in 1..Len(input) :
          HasKey(input[r], keys, col) =>
              Cardinality(Carrying(table, keys, KeyOf(input[r], keys))) = 1
    /\ \A x \in 1..Len(table) :
          \E r \in 1..Len(input) :
              HasKey(input[r], keys, col) /\ KeyOf(input[r], keys) = KeyOf(table[x], keys)

\* C2: in the v2 loader the deduplicated retail table has exactly one row
\* per (market_id, year, month, commodity_retail) and the farmgate table
\* exactly one row per (region_id, year, month, commodity_farmgate_en): no
\* key is repeated, and every key of a cleaned input row with a commodity
\* and no missing key field is the key of exactly one row
C2_OneRowPerKey ==
    (dash = "v2" /\ TableLoaded) =>
        /\ OneRowPerKey(CleanV2(file.rows), retail_df.rows, retail_keys, "commodity_retail")
        /\ OneRowPerKey(CleanV2(file.rows), farmgate_df.rows, farmgate_keys,
                        "commodity_farmgate_en")

\* two input rows with one retail key and different prices have become one row
C2_Witness ==
    /\ dash = "v2" /\ TableLoaded
    /\ Len(file.rows) = 2
    /\ HasKey(file.rows[1], retail_keys, "commodity_retail")
    /\ KeyOf(file.rows[1], retail_keys) = KeyOf(file.rows[2], retail_keys)
    /\ file.rows[1].price_retail # file.rows[2].price_retail
    /\ Len(retail_df.rows) = 1
    /\ retail_df.rows[1].price_retail = Frac(40, 2)

farmgate_side ==
    {"region_id", "commodity_farmgate_en", "price_farmgate", "unit_farmgate", "unit2_farmgate"}

retail_side ==
    {"market_id", "commodity_retail", "price_retail", "unit_retail", "unit2_retail"}

SameMonth(a, b) == a.year = b.year /\ a.month = b.month

Empty(row, side) == \A c \in side : row[c] = NULL

\* C3: the outer merge on (year, month) loses no record: every retail and
\* every farmgate key is in a merged row, a retail and a farmgate row share
\* a merged row exactly when their year and month agree, and a row without
\* a counterpart is kept with the other side's fields empty
C3_MergeLosesNothing ==
    (dash = "v2" /\ TableLoaded) =>
        LET retail == retail_df.rows
            farmgate == farmgate_df.rows
            merged == df.rows
        IN /\ \A l \in 1..Len(retail) :
                 Carrying(merged, retail_keys, KeyOf(retail[l], retail_keys)) # {}
           /\ \A f \in 1..Len(farmgate) :
                 Carrying(merged, farmgate_keys, KeyOf(farmgate[f], farmgate_keys)) # {}
           /\ \A l \in 1..Len(retail), f \in 1..Len(farmgate) :
                 SameMonth(retail[l], farmgate[f])
                 <=> (Carrying(merged, retail_keys, KeyOf(retail[l], retail_keys))
                      \cap Carrying(merged, farmgate_keys, KeyOf(farmgate[f], farmgate_keys))
                      # {})
           /\ \A l \in 1..Len(retail) :
                 (\A f \in 1..Len(farmgate) : ~SameMonth(retail[l], farmgate[f]))
                 => \E x \in Carrying(merged, retail_keys, KeyOf(retail[l], retail_keys)) :
                        Empty(merged[x], farmgate_side)
           /\ \A f \in 1..Len(farmgate) :
                 (\A l \in 1..Len(retail) : ~SameMonth(retail[l], farmgate[f]))
                 => \E x \in Carrying(merged, farmgate_keys, KeyOf(farmgate[f], farmgate_keys)) :
                        Empty(merged[x], retail_side)

\* a retail row of one month and a farmgate row of another, both kept
C3_Witness ==
    /\ dash = "v2" /\ TableLoaded
    /\ Len(retail_df.rows) = 1 /\ Len(farmgate_df.rows) = 1
    /\ ~SameMonth(retail_df.rows[1], farmgate_df.rows[1])
    /\ Len(df.rows) = 2
    /\ \E x, y \in 1..2 : /\ Empty(df.rows[x], farmgate_side) /\ ~Empty(df.rows[x], retail_side)
                          /\ Empty(df.rows[y], retail_side) /\ ~Empty(df.rows[y], farmgate_side)

\* the unit a record is specified to carry
ExpectedUnit(c) == IF c = NULL THEN Str("Unknown") ELSE c

UnitsOf(input, table, keys, unit, unit2) ==
    \A x \in 1..Len(table) :
        \E r \in 1..Len(input) :
            /\ KeyOf(CleanV2(input)[r], keys) = KeyOf(table[x], keys)
            /\ table[x][unit] = ExpectedUnit(input[r][unit])
            /\ table[x][unit2] = ExpectedUnit(input[r][unit2])

\* C4: after loading, a record whose unit cell is missing in the input has
\* the unit 'Unknown' and a record with a unit keeps it as text (Unit in
\* app.py and Sen_agricost.py; the four unit columns of v2)
C4_UnitNormalized ==
    TableLoaded =>
        IF dash = "v2"
        THEN /\ UnitsOf(file.rows, retail_df.rows, retail_keys, "unit_retail", "unit2_retail")
             /\ UnitsOf(file.rows, farmgate_df.rows, farmgate_keys,
                        "unit_farmgate", "unit2_farmgate")
        ELSE \A r \in 1..Len(file.rows) : df.rows[r].Unit = ExpectedUnit(file.rows[r].Unit)

Rank(step) ==
    CASE step = "title" -> 1
      [] step = "load" -> 2
      [] step = "commodities" -> 3
      [] step = "geo" -> 4
      [] step = "raster" -> 5
      [] step \in {"yearmonth", "no_yearmonth"} -> 6
      [] step = "generate_map" -> 7
      [] step = "map" -> 8
      [] step \in {"table", "chart"} -> 9
      [] step = "download" -> 10

Rendering == {"map", "table", "download", "chart"}

\* C5: within one rerun main goes top to bottom (load, aggregate, render);
\* generate_map and the rendering of the map, the table and the chart come
\* only after the loader has returned a table in that rerun, and when the
\* loader has returned None main has returned with none of them rendered
C5_LinearPipeline ==
    /\ \A a, b \in 1..Len(steps) : a < b => Rank(steps[a]) < Rank(steps[b])
    /\ \A b \in 1..Len(steps) :
          steps[b] \in Rendering \cup {"generate_map"}
          => df # None /\ \E a \in 1..(b - 1) : steps[a] = "load"
    /\ ("load" \in Range(steps) /\ df = None)
          => pc = "done" /\ Range(steps) \cap (Rendering \cup {"generate_map"}) = {}

\* a rerun that has loaded a table and rendered the map and the table or chart
C5_Witness ==
    /\ pc = "done"
    /\ TableLoaded
    /\ "map" \in Range(steps)
    /\ Range(steps) \cap {"table", "chart"} # {}

\* the value load_geospatial_data has returned for a layer
LayerValue(layer) ==
    CASE layer = "travel" -> <<geo.travel_data, geo.travel_bounds>>
      [] layer = "friction" -> <<geo.friction_data, geo.friction_bounds>>
      [] layer = "markets" -> <<geo.markets>>
      [] layer = "roads" -> <<geo.roads>>

IsNone(layer) == \A x \in DOMAIN LayerValue(layer) : LayerValue(layer)[x] = None

IsLoaded(layer) == \A x \in DOMAIN LayerValue(layer) : LayerValue(layer)[x] # None

GeoReturned == "geo" \in Range(steps)

\* each input on its own: a missing file is warned about and its layer is
\* None, and every other input whose file exists is loaded
Independent ==
    \A layer \in Range(Layers) :
        ~geo_files.exists[layer]
        => /\ layer \in Range(warnings)
           /\ IsNone(layer)
           /\ \A other \in Range(Layers) \ {layer} : geo_files.exists[other] => IsLoaded(other)

\* the position of a layer in the order load_geospatial_data reads them
Position(layer) == CHOOSE n \in 1..Len(Layers) : Layers[n] = layer

\* st.error(f"Error loading geospatial data: ...") has been called
GeoError == \E x \in 1..Len(errors) : errors[x].msg = "Error loading geospatial data"

Absent(d, wb) == IF wb = MissingFile THEN {} ELSE Range(required_columns(d)) \ wb.columns

\* an input for which the loader is specified to return None
Failing(d, wb) ==
    \/ wb = MissingFile
    \/ wb.corrupt
    \/ Absent(d, wb) # {}
    \/ /\ d = "v2"
       /\ \/ StrAccessorRaises(wb.rows, "commodity_retail")
          \/ StrAccessorRaises(wb.rows, "commodity_farmgate_en")

\* C10: the commodity loader never raises; on a missing file, an absent
\* required column or an exception while reading or cleaning it reports an
\* error and returns None, the error for absent columns lists exactly the
\* required columns that are missing, and otherwise it returns a table
C10_LoaderNeverRaises ==
    /\ pc # "crashed"
    /\ LoaderReturned =>
          /\ IF Failing(dash, file)
             THEN df = None /\ Len(errors) = 1
             ELSE df # None /\ errors = <<>>
          /\ (file # MissingFile /\ ~file.corrupt /\ Absent(dash, file) # {})
             => /\ errors[1].msg = "Missing required columns"
                /\ Range(errors[1].cols) = Absent(dash, file)
                /\ Len(errors[1].cols) = Cardinality(Absent(dash, file))

\* a workbook without two of the required columns: None, and both are listed
C10_Witness ==
    /\ LoaderReturned
    /\ file # MissingFile
    /\ Cardinality(Absent(dash, file)) = 2
    /\ df = None
    /\ Range(errors[1].cols) = Absent(dash, file)

(***************************************************************************)
(* scripts/agrifood_pipeline.py: extract_price_data.  A text is the        *)
(* sequence of its characters.  The pattern                                *)
(*   (\w+)\s+price.*?([A-Za-z]+)\s+is\s+KSh\s+(\d+)      re.IGNORECASE      *)
(* is matched as re.search matches it: the leftmost start, a greedy        *)
(* quantifier taking the longest run the rest of the pattern accepts, the  *)
(* lazy one the shortest.                                                  *)
(***************************************************************************)
Digits == <<"0", "1", "2", "3", "4", "5", "6", "7", "8", "9">>

\* the class \d
DigitChars == Range(Digits)

\* the class [A-Za-z]
AlphaChars == Range(LowerCase) \cup Range(UpperCase)

\* the class \w
WordChars == AlphaChars \cup DigitChars \cup {"_"}

NoMatch == [k |-> "nomatch"]

RECURSIVE Skip(_, _, _)
\* the position after the longest run of characters of a class that starts at p
Skip(s, p, class) ==
    IF p <= Len(s) /\ s[p] \in class THEN Skip(s, p + 1, class) ELSE p

\* the same for '.', which matches any character but a newline
SkipDot(s, p) ==
    LET stop == {q \in p..Len(s) : s[q] = "\n"} \cup {Len(s) + 1}
    IN CHOOSE q \in stop : \A x \in stop : q <= x

\* the positions at which class+ can end when it starts at p
Ends(s, p, class) == (p + 1)..Skip(s, p, class)

Max(S) == CHOOSE x \in S : \A y \in S : y <= x

Min(S) == CHOOSE x \in S : \A y \in S : x <= y

\* a literal of the pattern at p, letter case ignored
Literal(s, p, lit) ==
    /\ p + Len(lit) - 1 <= Len(s)
    /\ \A x \in 1..Len(lit) : ToLower(s[p + x - 1]) = ToLower(lit[x])

\* The matcher keeps, for each part of the pattern, what that part and all
\* that follows it match at every position of the sentence
Positions(s) == 1..(Len(s) + 1)

\* a function over 1..n as the sequence of its values
Table(f) == f \o <<>>

\* (\d+)
MatchDigits(s) ==
    Table([p \in Positions(s) |->
        LET e == Skip(s, p, DigitChars)
        IN IF e > p THEN [k |-> "match", price |-> SubSeq(s, p, e - 1)] ELSE NoMatch])

\* \s+ and what follows: the longest run of white space after which it matches
MatchSpace(s, follows) ==
    Table([p \in Positions(s) |->
        LET ok == {e \in Ends(s, p, WhiteSpace) : follows[e] # NoMatch}
        IN IF ok = {} THEN NoMatch ELSE follows[Max(ok)]])

\* a literal and what follows
MatchLiteral(s, lit, follows) ==
    Table([p \in Positions(s) |-> IF Literal(s, p, lit) THEN follows[p + Len(lit)] ELSE NoMatch])

\* ([A-Za-z]+) and what follows: the longest run of letters after which it matches
MatchLocation(s, follows) ==
    Table([p \in Positions(s) |->
        LET ok == {e \in Ends(s, p, AlphaChars) : follows[e] # NoMatch}
        IN IF ok = {} THEN NoMatch
           ELSE [k |-> "match",
                 location |-> SubSeq(s, p, Max(ok) - 1),
                 price |-> follows[Max(ok)].price]])

\* .*? and what follows: the fewest characters after which it matches
MatchLazy(s, follows) ==
    Table([p \in Positions(s) |->
        LET ok == {a \in p..SkipDot(s, p) : follows[a] # NoMatch}
        IN IF ok = {} THEN NoMatch ELSE follows[Min(ok)]])

\* (\w+) and what follows: the longest run of word characters after which it matches
MatchCommodity(s, follows) ==
    Table([p \in Positions(s) |->
        LET ok == {e \in Ends(s, p, WordChars) : follows[e] # NoMatch}
        IN IF ok = {} THEN NoMatch
           ELSE [k |-> "match",
                 commodity |-> SubSeq(s, p, Max(ok) - 1),
                 location |-> follows[Max(ok)].location,
                 price |-> follows[Max(ok)].price]])

\* the pattern at every position, built from its last part to its first
MatchAt(s) ==
    LET digits == MatchDigits(s)
        ksh == MatchLiteral(s, <<"K", "S", "h">>, MatchSpace(s, digits))
        is == MatchLiteral(s, <<"i", "s">>, MatchSpace(s, ksh))
        location == MatchLocation(s, MatchSpace(s, is))
        price == MatchLiteral(s, <<"p", "r", "i", "c", "e">>, MatchLazy(s, location))
    IN MatchCommodity(s, MatchSpace(s, price))

\* re.search(pattern, sent.text, re.IGNORECASE): the match at the leftmost start
Search(s) ==
    LET at == MatchAt(s)
        ok == {p \in Positions(s) : at[p] # NoMatch}
    IN IF ok = {} THEN NoMatch ELSE at[Min(ok)]

\* commodity.lower()
Lower(w) == [x \in 1..Len(w) |-> ToLower(w[x])]

DigitVal(c) == (CHOOSE x \in 1..Len(Digits) : Digits[x] = c) - 1

RECURSIVE ToFloat(_)
\* float(price) of a string of digits
ToFloat(w) == IF w = <<>> THEN 0 ELSE 10 * ToFloat(SubSeq(w, 1, Len(w) - 1)) + DigitVal(w[Len(w)])

\* {'commodity': commodity, 'location': location, 'price': float(price)}
PriceRecordAsIs(m) ==
    [commodity |-> m.commodity, location |-> m.location, price |-> ToFloat(m.price)]

\* {'commodity': commodity.lower(), 'location': location, 'price': float(price)}
PriceRecord(m) ==
    [commodity |-> Lower(m.commodity), location |-> m.location, price |-> ToFloat(m.price)]

\* doc.sents for running prose: a sentence ends with a full stop that white
\* space or the end of the text follows
SentEnds(t) ==
    {p \in 1..Len(t) : t[p] = "." /\ (p = Len(t) \/ t[p + 1] \in WhiteSpace)}

RECURSIVE SplitSents(_, _)
\* the sentences from position p on; sent.text carries no outer white space
SplitSents(t, p) ==
    LET ends == {e \in SentEnds(t) : e >= p}
        stop == IF ends = {} THEN Len(t) ELSE CHOOSE e \in ends : \A x \in ends : e <= x
    IN IF p > Len(t) THEN <<>>
       ELSE (IF Strip(SubSeq(t, p, stop)) = <<>> THEN <<>>
             ELSE <<Strip(SubSeq(t, p, stop))>>)
            \o SplitSents(t, stop + 1)

Sents(t) == SplitSents(t, 1)

\* the text of the script
sample_text ==
    <<"R", "e", "t", "a", "i", "l", " ", "m", "a", "i", "z", "e", " ", "p", "r",
       "i", "c", "e", " ", "i", "n", " ", "K", "i", "s", "u", "m", "u", " ",
       "i", "s", " ", "K", "S", "h", " ", "6", "3", " ", "p", "e", "r", " ",
       "k", "g", ".", " ", "W", "h", "o", "l", "e", "s", "a", "l", "e", " ",
       "r", "i", "c", "e", " ", "p", "r", "i", "c", "e", " ", "i", "n", " ",
       "N", "a", "i", "r", "o", "b", "i", " ", "i", "s", " ", "K", "S", "h",
       " ", "9", "5", ".">>

MaxSents == 2

RECURSIVE Join(_)
\* words, a space between them
Join(words) ==
    IF words = <<>> THEN <<>>
    ELSE IF Len(words) = 1 THEN Head(words)
    ELSE Head(words) \o <<" ">> \o Join(Tail(words))

\* sentences of market reports: some match the pattern, some do not, one
\* holds two prices
Sentences ==
    {Join(<<head, noun, tail>>) \o <<".">> :
        head \in {<<"R", "e", "t", "a", "i", "l", " ", "m", "a", "i", "z", "e">>,
                  <<"S", "w", "e", "e", "t", "-", "P", "O", "T", "A", "T", "O">>},
        noun \in {<<"P", "r", "i", "c", "e", "s">>, <<"c", "o", "s", "t">>},
        tail \in {<<"i", "n", " ", "K", "i", "s", "u", "m", "u", " ", "i", "s", " ",
                    "K", "S", "h", " ", "6", "3">>,
                  <<"a", "t", "\t", "Z", "o", "n", "e", "5", "b", " ", "i", "s", " ",
                    "K", "S", "h", " ", "9", "5", ".", "5", "0", " ", "p", "e", "r",
                    " ", "k", "g">>}}
    \cup {<<"M", "a", "i", "z", "e", " ", "p", "r", "i", "c", "e", " ", "i", "n", " ",
       "K", "i", "s", "u", "m", "u", " ", "i", "s", " ", "K", "S", "h", " ",
       "6", "3", " ", "a", "n", "d", " ", "r", "i", "c", "e", " ", "p", "r",
       "i", "c", "e", " ", "i", "n", " ", "N", "a", "i", "r", "o", "b", "i",
       " ", "i", "s", " ", "K", "S", "h", " ", "9", "5", ".">>}

RECURSIVE TextsOf(_)
\* the texts of n sentences
TextsOf(n) ==
    IF n = 0 THEN {<<>>}
    ELSE {IF t = <<>> THEN x ELSE t \o <<" ">> \o x : t \in TextsOf(n - 1), x \in Sentences}

Texts == UNION {TextsOf(n) : n \in 0..MaxSents} \cup {sample_text}

\* if __name__ == "__main__": text = ...
InitScript ==
    /\ text \in Texts
    /\ sents = None
    /\ sent = 0
    /\ prices = <<>>
    /\ margin_df = None
    /\ spc = "nlp"

\* doc = nlp(text); prices = []
Nlp ==
    /\ spc = "nlp"
    /\ sents' = Sents(text)
    /\ prices' = <<>>
    /\ sent' = 0
    /\ spc' = "sents"
    /\ UNCHANGED <<text, margin_df>>
    /\ UNCHANGED notScript

\* for sent in doc.sents: match = re.search(...); if match: prices.append(...)
NextSent ==
    /\ spc = "sents"
    /\ sent < Len(sents)
    /\ sent' = sent + 1
    /\ LET match == Search(sents[sent + 1])
       IN prices' = IF match # NoMatch THEN Append(prices, PriceRecord(match)) ELSE prices
    /\ UNCHANGED <<text, sents, margin_df, spc>>
    /\ UNCHANGED notScript

\* return pd.DataFrame(prices)
ReturnPrices ==
    /\ spc = "sents"
    /\ sent = Len(sents)
    /\ spc' = "margin"
    /\ UNCHANGED <<text, sents, sent, prices, margin_df>>
    /\ UNCHANGED notScript

(***************************************************************************)
(* scripts/agrifood_pipeline.py: generate_margin_data.  The numbers of the *)
(* frame are rationals p/q with q > 0, so that 10 / (road_density + 1) is  *)
(* kept exactly.                                                           *)
(***************************************************************************)
Rat(p, q) == [k |-> "frac", p |-> p, q |-> q]

Int2Rat(n) == Rat(n, 1)

RAdd(a, b) == Rat(a.p * b.q + b.p * a.q, a.q * b.q)

RSub(a, b) == Rat(a.p * b.q - b.p * a.q, a.q * b.q)

RMul(a, b) == Rat(a.p * b.p, a.q * b.q)

\* a / b for b > 0
RDiv(a, b) == Rat(a.p * b.q, a.q * b.p)

REq(a, b) == a.p * b.q = b.p * a.q

RLe(a, b) == a.p * b.q <= b.p * a.q

RLt(a, b) == a.p * b.q < b.p * a.q

\* the columns of the DataFrame literal, row by row
margin_rows ==
    <<[commodity |-> "maize", price_farm |-> Int2Rat(40), price_retail |-> Int2Rat(65),
       distance_to_market_km |-> Int2Rat(80), road_density |-> Rat(20, 10),
       storage_availability |-> Int2Rat(1)],
      [commodity |-> "maize", price_farm |-> Int2Rat(42), price_retail |-> Int2Rat(67),
       distance_to_market_km |-> Int2Rat(150), road_density |-> Rat(5, 10),
       storage_availability |-> Int2Rat(0)],
      [commodity |-> "rice", price_farm |-> Int2Rat(60), price_retail |-> Int2Rat(100),
       distance_to_market_km |-> Int2Rat(60), road_density |-> Rat(12, 10),
       storage_availability |-> Int2Rat(1)]>>

\* df['price_retail'] - df['price_farm'] at one row
GrossMargin(row) == RSub(row.price_retail, row.price_farm)

\* a transaction cost without the storage term
TransactionCostNoStorage(row) ==
    RAdd(RMul(Rat(1, 2), row.distance_to_market_km),
         RDiv(Int2Rat(10), RAdd(row.road_density, Int2Rat(1))))

\* 0.5 * distance + 10 / (road_density + 1) + 15 * (1 - storage) at one row
TransactionCost(row) ==
    RAdd(RAdd(RMul(Rat(1, 2), row.distance_to_market_km),
              RDiv(Int2Rat(10), RAdd(row.road_density, Int2Rat(1)))),
         RMul(Int2Rat(15), RSub(Int2Rat(1), row.storage_availability)))

\* df['gross_margin'] - df['transaction_cost'] at one row
NetMargin(gross_margin, transaction_cost) == RSub(gross_margin, transaction_cost)

\* the frame generate_margin_data returns
generate_margin_data ==
    [r \in 1..Len(margin_rows) |->
        [commodity |-> margin_rows[r].commodity,
         price_farm |-> margin_rows[r].price_farm,
         price_retail |-> margin_rows[r].price_retail,
         distance_to_market_km |-> margin_rows[r].distance_to_market_km,
         road_density |-> margin_rows[r].road_density,
         storage_availability |-> margin_rows[r].storage_availability,
         gross_margin |-> GrossMargin(margin_rows[r]),
         transaction_cost |-> TransactionCost(margin_rows[r]),
         net_margin |-> NetMargin(GrossMargin(margin_rows[r]),
                                  TransactionCost(margin_rows[r]))]]

\* df = generate_margin_data()
MarginData ==
    /\ spc = "margin"
    /\ margin_df' = generate_margin_data
    /\ spc' = "train"
    /\ UNCHANGED <<text, sents, sent, prices>>
    /\ UNCHANGED notScript

\* train_model(df); generate_geospatial_data(): they read df and write files
TrainModel ==
    /\ spc = "train"
    /\ spc' = "done"
    /\ UNCHANGED <<text, sents, sent, prices, margin_df>>
    /\ UNCHANGED notScript

NextScript ==
    \/ Nlp
    \/ NextSent
    \/ ReturnPrices
    \/ MarginData
    \/ TrainModel

ScriptInit == InitScript /\ IdleRaster /\ IdleMarker /\ IdleMain

SpecScript == ScriptInit /\ [][NextScript]_vars

(***************************************************************************)
(* extract_price_data: what a sentence of the form                         *)
(*   <word> price ... <letters> is KSh <digits>                            *)
(* holds, read off the sentence without running the matcher.               *)
(***************************************************************************)
RECURSIVE BackSkip(_, _, _)
\* the position before the longest run of characters of a class that ends at p
BackSkip(s, p, class) ==
    IF p >= 1 /\ s[p] \in class THEN BackSkip(s, p - 1, class) ELSE p

\* the places of a literal in a sentence
Places(s, lit) == {p \in 1..Len(s) : Literal(s, p, lit)}

\* the records a sentence can be read as with 'price' at c and 'is' at f: a
\* word and white space before c; letters from some d up to white space
\* before f, no line break between c and d; after f white space, 'KSh',
\* white space and digits
ReadingsAt(s, c, f) ==
    LET b == BackSkip(s, c - 1, WhiteSpace)
        a == BackSkip(s, b, WordChars)
        e == BackSkip(s, f - 1, WhiteSpace)
        h == Skip(s, f + 2, WhiteSpace)
        j == Skip(s, h + 3, WhiteSpace)
        z == Skip(s, j, DigitChars)
    IN IF /\ b < c - 1 /\ a < b
          /\ e < f - 1
          /\ h > f + 2 /\ Literal(s, h, <<"K", "S", "h">>)
          /\ j > h + 3 /\ z > j
       THEN {[commodity |-> Lower(SubSeq(s, a + 1, b)),
              location |-> SubSeq(s, d, e),
              price |-> ToFloat(SubSeq(s, j, z - 1))] :
                d \in {y \in (c + 5)..e :
                          (\A x \in y..e : s[x] \in AlphaChars)
                          /\ (\A x \in (c + 5)..(y - 1) : s[x] # "\n")}}
       ELSE {}

\* the records a sentence can be read as
Readings(s) ==
    UNION {ReadingsAt(s, c, f) : c \in Places(s, <<"p", "r", "i", "c", "e">>),
                                 f \in Places(s, <<"i", "s">>)}

\* the sentences taken so far that have a reading
Matching == {x \in 1..sent : Readings(sents[x]) # {}}

\* the j-th of them
Nth(S, j) == CHOOSE x \in S : Cardinality({y \in S : y <= x}) = j

sample_prices ==
    <<[commodity |-> <<"m", "a", "i", "z", "e">>,
       location |-> <<"K", "i", "s", "u", "m", "u">>, price |-> 63],
      [commodity |-> <<"r", "i", "c", "e">>,
       location |-> <<"N", "a", "i", "r", "o", "b", "i">>, price |-> 95]>>

\* C11: extract_price_data takes the sentences in order; a sentence of the
\* form '<word> price ... <letters> is KSh <digits>' gives exactly one
\* record (the word before 'price' in lower case, the letters before 'is',
\* the digits as a number) and any other sentence none, so there are never
\* more records than sentences and records keep the order of the
\* sentences; the text of the script gives (maize, Kisumu, 63) and then
\* (rice, Nairobi, 95)
C11_OneRecordPerMatchingSentence ==
    spc \in {"sents", "margin", "train", "done"} =>
        /\ Len(prices) = Cardinality(Matching)
        /\ \A j \in 1..Len(prices) : prices[j] \in Readings(sents[Nth(Matching, j)])
        /\ Len(prices) <= Len(sents)
        /\ (text = sample_text /\ spc \notin {"nlp", "sents"}) => prices = sample_prices

\* two sentences taken, the first without a price, the second with one in
\* upper-case letters
C11_Witness ==
    /\ spc = "sents"
    /\ sent = 2
    /\ Readings(sents[1]) = {}
    /\ Readings(sents[2]) # {}
    /\ Len(prices) = 1
    /\ \E x \in 1..Len(sents[2]) : IsUpper(sents[2][x]) /\ ~IsUpper(prices[1].commodity[1])

\* 0.5 * d + 10 / (road_density + 1) + 15 * (1 - storage) over the common
\* denominator 2 * (road_density + 1), for whole d and storage
ExpectedCost(row) ==
    LET d == row.distance_to_market_km.p
        st == row.storage_availability.p
        rp == row.road_density.p
        rq == row.road_density.q
    IN Rat(d * (rp + rq) + 20 * rq + 30 * (1 - st) * (rp + rq), 2 * (rp + rq))

\* rows within the stated ranges: distance >= 0, road_density > -1, storage 0 or 1
RowsInRange ==
    [price_farm : {Int2Rat(40), Int2Rat(70)},
     price_retail : {Int2Rat(65)},
     distance_to_market_km : {Int2Rat(0), Int2Rat(80), Rat(3, 2)},
     road_density : {Rat(-5, 10), Int2Rat(0), Rat(12, 10)},
     storage_availability : {Int2Rat(0), Int2Rat(1)}]

\* C16: in every row of generate_margin_data gross_margin = price_retail -
\* price_farm, transaction_cost = 0.5 * distance_to_market_km + 10 /
\* (road_density + 1) + 15 * (1 - storage_availability) and net_margin =
\* gross_margin - transaction_cost, so net_margin + transaction_cost =
\* price_retail - price_farm, and net_margin <= gross_margin when distance
\* >= 0, road_density > -1 and storage_availability is 0 or 1
C16_MarginArithmetic ==
    spc \in {"train", "done"} =>
        \A r \in 1..Len(margin_df) :
            LET row == margin_df[r]
            IN /\ REq(row.gross_margin, RSub(row.price_retail, row.price_farm))
               /\ REq(row.transaction_cost, ExpectedCost(row))
               /\ REq(row.net_margin, RSub(row.gross_margin, row.transaction_cost))
               /\ REq(RAdd(row.net_margin, row.transaction_cost),
                      RSub(row.price_retail, row.price_farm))
               /\ (/\ RLe(Int2Rat(0), row.distance_to_market_km)
                   /\ RLt(Int2Rat(-1), row.road_density)
                   /\ row.storage_availability \in {Int2Rat(0), Int2Rat(1)})
                  => RLe(row.net_margin, row.gross_margin)
               /\ \A other \in RowsInRange :
                     /\ REq(RAdd(NetMargin(GrossMargin(other), TransactionCost(other)),
                                 TransactionCost(other)),
                            RSub(other.price_retail, other.price_farm))
                     /\ RLe(NetMargin(GrossMargin(other), TransactionCost(other)),
                            GrossMargin(other))

\* the frame is built: three rows, the second without storage at a cost of
\* 290/3 and a net margin below zero
C16_Witness ==
    /\ spc = "train"
    /\ Len(margin_df) = 3
    /\ margin_df[2].storage_availability = Int2Rat(0)
    /\ REq(margin_df[2].transaction_cost, Rat(290, 3))
    /\ RLt(margin_df[2].net_margin, Int2Rat(0))
    /\ REq(margin_df[1].transaction_cost, Rat(130, 3))

(***************************************************************************)
(* The v2 loader over commodity names written in several ways.             *)
(***************************************************************************)
RedRice == Text(<<"R", "e", "d", " ", "R", "i", "c", "e">>)

\* one name in other letter case, with doubled, leading and trailing white
\* space, with a tab
RedRiceVariants ==
    {RedRice,
     Text(<<"R", "E", "D", " ", " ", "r", "i", "c", "e">>),
     Text(<<" ", "r", "e", "d", "\t", "r", "I", "c", "e", " ">>)}

MaizeVariants == {Maize, Text(<<"m", "a", "i", "z", "e", " ">>)}

RowsV2Names ==
    [market_id : {Num(1)}, year : {Num(2016)}, month : {Num(1)},
     commodity_retail : RedRiceVariants \cup {NULL}, price_retail : {Num(10), Num(30)},
     unit_retail : {Str("kg")}, unit2_retail : {NULL},
     region_id : {Num(1)}, commodity_farmgate_en : MaizeVariants,
     price_farmgate : {Num(20)}, unit_farmgate : {Str("kg")}, unit2_farmgate : {Str("kg")}]

\* v2 up to the return of its loader, over the tables of RowsV2Names
InitNames ==
    /\ dash = "v2"
    /\ file \in {Workbook(Range(required_columns_v2), rows, FALSE) :
                    rows \in Tables(RowsV2Names)}
    /\ geo_files = GeoFiles(AllLayers, {})
    /\ InitRun
    /\ IdleMarkers
    /\ IdleRaster
    /\ IdleScript

SpecNames == InitNames /\ [][NextV2]_vars

(***************************************************************************)
(* C12                                                                     *)
(***************************************************************************)
Fold(w) == [x \in 1..Len(w) |-> ToLower(w[x])]

WordStarts(w) ==
    {x \in 1..Len(w) : w[x] \notin WhiteSpace /\ (x = 1 \/ w[x - 1] \in WhiteSpace)}

WordAt(w, x) ==
    SubSeq(w, x, Max({y \in x..Len(w) : \A z \in x..y : w[z] \notin WhiteSpace}))

\* the words of a name, in order
WordsOf(w) ==
    [j \in 1..Cardinality(WordStarts(w)) |-> WordAt(w, Nth(WordStarts(w), j))]

\* two names that differ only in letter case, in leading or trailing white
\* space or in the amount of white space between their words
SameName(a, b) ==
    /\ a.k = "text" /\ b.k = "text"
    /\ WordsOf(Fold(a.s)) = WordsOf(Fold(b.s))

NameColumns == {"commodity_retail", "commodity_farmgate_en"}

\* the rows of a deduplicated table that hold the records of an input row
\* under any spelling of its name
RowsOfName(table, input, keys, col) ==
    {x \in 1..Len(table) :
        /\ SameName(table[x][col], input[col])
        /\ \A c \in Range(keys) \ {col} : table[x][c] = input[c]}

OneKeyPerName(input, table, keys, col) ==
    \A a, b \in 1..Len(input) :
        (/\ SameName(input[a][col], input[b][col])
         /\ \A c \in Range(keys) \ {col} : input[a][c] = input[b][c] /\ ~IsNa(input[a][c]))
        => /\ Cardinality(RowsOfName(table, input[a], keys, col)) = 1
           /\ RowsOfName(table, input[a], keys, col) = RowsOfName(table, input[b], keys, col)
           /\ KeyOf(table[CHOOSE x \in RowsOfName(table, input[a], keys, col) : TRUE], keys)
              = KeyOf(CleanV2(input)[b], keys)

\* C12: the v2 normalisation of commodity names (strip, collapse white
\* space, title-case) is idempotent, a loaded name is a fixed point of it,
\* and two records whose names differ only in letter case, in leading or
\* trailing white space or in the amount of white space between words get
\* the same name and, with the other key fields equal, lie under one key of
\* the deduplicated table
C12_NamesNormalizedOnce ==
    (dash = "v2" /\ TableLoaded) =>
        LET input == file.rows
        IN /\ \A r \in 1..Len(input), col \in NameColumns :
                 NormalizeName(NormalizeName(input[r][col])) = NormalizeName(input[r][col])
           /\ \A x \in 1..Len(df.rows), col \in NameColumns :
                 NormalizeName(df.rows[x][col]) = df.rows[x][col]
           /\ \A a, b \in 1..Len(input), col \in NameColumns :
                 SameName(input[a][col], input[b][col])
                 => NormalizeName(input[a][col]) = NormalizeName(input[b][col])
           /\ OneKeyPerName(input, retail_df.rows, retail_keys, "commodity_retail")
           /\ OneKeyPerName(input, farmgate_df.rows, farmgate_keys, "commodity_farmgate_en")

\* two spellings of one name with different prices, loaded as one row under
\* the normalised name, next to a row of another name
C12_Witness ==
    /\ dash = "v2" /\ TableLoaded
    /\ Len(file.rows) = 2
    /\ file.rows[1].commodity_retail # file.rows[2].commodity_retail
    /\ file.rows[1].commodity_retail # RedRice
    /\ file.rows[2].commodity_retail # RedRice
    /\ SameName(file.rows[1].commodity_retail, file.rows[2].commodity_retail)
    /\ file.rows[1].price_retail # file.rows[2].price_retail
    /\ Len(retail_df.rows) = 1
    /\ retail_df.rows[1].commodity_retail = RedRice
    /\ retail_df.rows[1].price_retail = Frac(40, 2)
    /\ Len(farmgate_df.rows) = 1

(***************************************************************************)
(* C13                                                                     *)
(***************************************************************************)
\* every commodity a popup lists is selected and comes from a row of the
\* loaded frame at the popup's place in the selected year and month
Listed(popups, rows, sel, id, commodity) ==
    \A x \in 1..Len(popups) : \A j \in 1..Len(popups[x].commodities) :
        /\ popups[x].commodities[j] \in sel.commodities
        /\ \E r \in 1..Len(rows) :
              /\ rows[r][id] = popups[x].id
              /\ rows[r][commodity] = popups[x].commodities[j]
              /\ rows[r].year = sel.year
              /\ rows[r].month = sel.month

\* C13: in the v2 generate_map every commodity listed in a market (retail)
\* popup or in a region (farmgate) popup is one of selected_commodities and
\* belongs to the selected year and month
C13_PopupsWithinSelection ==
    (dash = "v2" /\ map_out # None) =>
        /\ Listed(map_out.market_popups, df.rows, selected, "market_id", "commodity_retail")
        /\ Listed(map_out.region_popups, df.rows, selected, "region_id",
                  "commodity_farmgate_en")

(***************************************************************************)
(* The v2 dashboard over workbooks in which a month has several records    *)
(* on one side and the months differ in price.                             *)
(***************************************************************************)
MaxChartRows == 3

RowsV2Chart ==
    [market_id : {Num(1)}, year : {Num(2016)}, month : {Num(1), Num(2)},
     commodity_retail : {Rice}, price_retail : {Num(10), Num(30)},
     unit_retail : {Str("kg")}, unit2_retail : {Str("kg")},
     region_id : {Num(1)}, commodity_farmgate_en : {Rice, Maize, NULL},
     price_farmgate : {Num(20)}, unit_farmgate : {Str("kg")}, unit2_farmgate : {Str("kg")}]

InitChart ==
    /\ dash = "v2"
    /\ file \in {Workbook(Range(required_columns_v2), rows, FALSE) :
                    rows \in UNION {[1..n -> RowsV2Chart] : n \in 0..MaxChartRows}}
    /\ geo_files = GeoFiles(AllLayers, {})
    /\ InitRun
    /\ IdleMarkers
    /\ IdleRaster
    /\ IdleScript

SpecChart == InitChart /\ [][Next]_vars

(***************************************************************************)
(* C14                                                                     *)
(***************************************************************************)
SameNumber(a, b) == IF IsNa(a) \/ IsNa(b) THEN a = b ELSE a.p * b.q = b.p * a.q

\* the mean of a commodity's records of one year in a deduplicated table,
\* each record once; NaN when it has none
YearMean(table, commodity, price, name, year) ==
    MeanOfMeans(Column(SelectSeq(table, LAMBDA row : row[commodity] = name /\ row.year = year),
                       price))

\* C14: in the v2 price chart the retail bar of a commodity is the mean of
\* its deduplicated retail prices of the selected year, each (market, month)
\* record counted once, and the farmgate bar the mean of its deduplicated
\* farmgate prices, each (region, month) record counted once, however many
\* records the other side has in the same month
C14_ChartBarsAreYearMeans ==
    (dash = "v2" /\ shown # None /\ shown.chart # None) =>
        \A x \in 1..Len(shown.chart.rows) :
            LET bar == shown.chart.rows[x]
            IN /\ SameNumber(bar.retail_price,
                             YearMean(retail_df.rows, "commodity_retail", "price_retail",
                                      bar.commodity, selected.year))
               /\ SameNumber(bar.farmgate_price,
                             YearMean(farmgate_df.rows, "commodity_farmgate_en",
                                      "price_farmgate", bar.commodity, selected.year))

(***************************************************************************)
(* Sen_agricost.py over workbooks of several years, months, commodities    *)
(* and regions.                                                            *)
(***************************************************************************)
RowsSen ==
    [Year : {Num(2016), Num(2017)}, Month : {Num(1), Num(2)}, Commodity : {Rice, Maize},
     RegionId : {Num(1), NULL}, Price : {Num(100)}, Unit : {Str("kg")}]

InitSen ==
    /\ dash = "sen"
    /\ file \in {Workbook(Range(required_columns_app), rows, FALSE) :
                    rows \in Tables(RowsSen)}
    /\ geo_files = GeoFiles(AllLayers, {})
    /\ InitRun
    /\ IdleMarkers
    /\ IdleRaster
    /\ IdleScript

SpecSen == InitSen /\ [][Next]_vars

(***************************************************************************)
(* C15                                                                     *)
(***************************************************************************)
\* the rows of the loaded frame of the selected year and month whose
\* commodity is selected
Wanted(rows, sel) ==
    {r \in 1..Len(rows) :
        /\ rows[r].Year = sel.year
        /\ rows[r].Month = sel.month
        /\ rows[r].Commodity \in sel.commodities}

\* a row of the table shows a row of the frame
Shows(line, row) ==
    /\ line.RegionId = row.RegionId
    /\ line.Commodity = row.Commodity
    /\ line.Unit = row.Unit
    /\ line.Price = IF row.Price = NULL THEN Str("N/A") ELSE row.Price

\* C15: in Sen_agricost.py every commodity a region popup lists and every
\* row of the Commodity Details table (the rows of the CSV) is a row of the
\* selected year and month with a selected commodity, and every such row of
\* the input is in the table, as often as it is in the input
C15_TableIsSelection ==
    (dash = "sen" /\ shown # None) =>
        LET rows == df.rows
            table == IF shown.table = None THEN <<>> ELSE shown.table.rows
            popups == map_out.region_popups
        IN /\ \A x \in 1..Len(popups) : \A j \in 1..Len(popups[x].commodities) :
                 \E r \in Wanted(rows, selected) :
                     /\ rows[r].RegionId = popups[x].id
                     /\ rows[r].Commodity = popups[x].commodities[j]
           /\ \A t \in 1..Len(table) : \E r \in Wanted(rows, selected) : Shows(table[t], rows[r])
           /\ \A r \in Wanted(rows, selected) :
                 Cardinality({t \in 1..Len(table) : Shows(table[t], rows[r])})
                 = Cardinality({q \in Wanted(rows, selected) :
                                   \A c \in {"RegionId", "Commodity", "Unit", "Price"} :
                                       rows[q][c] = rows[r][c]})

\* a workbook of two rows with selected commodities, one of them of another
\* month: the table and the popup hold the one row of the selected month
C15_Witness ==
    /\ dash = "sen" /\ shown # None /\ shown.table # None
    /\ Len(df.rows) = 2
    /\ Cardinality(Wanted(df.rows, selected)) = 1
    /\ \A r \in 1..2 : df.rows[r].Commodity \in selected.commodities
    /\ \E r \in 1..2 : df.rows[r].Month # selected.month /\ df.rows[r].Year = selected.year
    /\ Len(shown.table.rows) = 1
    /\ Len(map_out.region_popups) = 1
    /\ map_out.region_popups[1].commodity_count = 1

====
